---- MODULE Spec2Model ----
(***************************************************************************)
(* Batching dispatcher (InferController), its bounded slot pool            *)
(* (MonopolyAllocator) and the detection worker (YoloInferImpl) of         *)
(* src/simple_yolo/src/simple_yolo.cu, as a state machine of threads:      *)
(* one controlling thread (startup / stop), one worker thread and          *)
(* NumProducers client threads calling commit / commits.                   *)
(***************************************************************************)
EXTENDS Integers, Sequences, FiniteSets, TLC

\* ---------------------------------------------------------------- bounds
NumProducers == 2
MaxInputs    == 3
MaxBatch     == 1
MaxStops     == 2
MaxJobs      == 3
MaxBoxes     == 3
MaxObjects   == 2
MaxBytes     == 2
MaxAllocs    == 3
MaxReleases  == 1
MaxRank      == 2
MaxDim       == 2

Producers == 1..NumProducers
Jobs      == 1..(NumProducers * MaxInputs)
NoJob     == 0
NoSlot    == 0
NoVal     == 0 - 1
EmptyOut  == 0

\* the Type handed to create_infer: the two kinds startup knows, and any other
Types == {"V5", "X", "other"}

\* Job (p, i): the Job object built for inputs[i] of producer p's call;
\* its identifier also serves as the unique marker of that input image.
jid(p, i) == (p - 1) * MaxInputs + i

Min(a, b) == IF a < b THEN a ELSE b

VARIABLES
    \* controlling thread
    cpc,            \* "init" | "starting" | "up" | "s_notify" | "s_drain" | "s_join"
    stops,          \* number of stop() calls begun
    stopsReturned,  \* number of stop() calls that returned normally
    joins,          \* number of worker_->join() calls made
    startOk,        \* value returned by startup(): "unknown" | "true" | "false"
    raised,         \* a stop() call ended by an exception
    mtype,          \* the Type argument of create_infer
    normalize,      \* normalize_.type: "None" | "AlphaBeta"
    \* InferController members
    run,            \* run_
    jobsLockHeld,   \* jobs_lock_ held by the worker between predicate check and wait
    jobs,           \* jobs_ (queue of job ids, front first)
    workerHandle,   \* worker_ != nullptr
    sig,            \* the one-shot start-up promise: "none" | "ok" | "fail"
    alloc,          \* tensor_allocator_ != nullptr
    \* worker thread
    wpc,            \* "none" | "load" | "gjw" | "gjw_window" | "gjw_wait" | "gjw_woken"
                    \* | "copy" | "infer" | "fulfil" | "exit" | "x_run" | "x_notify"
                    \* | "x_wait" | "done"
    fetch,          \* fetch_jobs
    ibatch,         \* loop index of the worker's per-job loops (1-based)
    batchIn,        \* image held at each batch index of the engine input tensor
    batchAff,       \* affine matrix held at each row of affin_matrix_device
    outArr,         \* image each row of output_array_device was decoded from
    maxBatch,       \* engine->get_max_batch_size()
    batches,        \* sizes of the batches on which forward() was launched
    \* MonopolyAllocator
    poolAlive,      \* the pool object exists (constructed and not yet destroyed)
    prun,           \* MonopolyAllocator::run_
    plock,          \* holder of MonopolyAllocator::lock_ between check and wait (0 = free)
    avail,          \* available_ of each slot
    numAvail,       \* num_available_
    numWait,        \* num_wait_thread_
    cap,            \* capacity_
    slotData,       \* image in each slot's device memory (tensor and gpu workspace)
    \* CUDA stream and pinned host memory
    hostWs,         \* image staged in the pinned host workspace of each slot
    stream,         \* operations enqueued on stream_ and not yet executed
    gpuLag,         \* the device may run behind the host (FALSE: every operation
                    \* enqueued on the stream has completed when the call returns)
    \* producer threads
    ppc,            \* "idle" | "begin" | "pre" | "query" | "q_window" | "q_wait" | "q_woken"
                    \* | "q_timeout" | "push" | "notify" | "done"
    script,         \* <<kind, n>>: the call the producer makes
    pidx,           \* index i of the item being preprocessed (1-based)
    pepoch,         \* epoch: index of the current group of commits
    pbs,            \* batch_size of commits
    results,        \* futures returned so far: results[p][i] = job whose promise it reads
    \* jobs
    setCalls,       \* number of set_value calls made on the job's promise
    val,            \* value stored in the promise: NoVal | EmptyOut | image the boxes come from
    mono,           \* job.mono_tensor (NoSlot = nullptr)
    img,            \* input image preprocessed for the job (job.additional belongs to it)
    pushIdx,        \* position of the job in the order of queue pushes (0 = never pushed)
    nPushed,        \* number of pushes so far
    dequeued,       \* jobs moved from the queue into fetch_jobs by the worker
    drained,        \* jobs popped from the queue by stop()
    crashed,        \* the process has been terminated by a fault or an uncaught exception
    ub,             \* an operation with undefined behaviour has been executed and survived
    \* decode_kernel_invoker on one image, and the read-back of its boxes
    kpc,            \* "idle" | "launched" | "done"
    predict,        \* rows of the network output: <<cx, cy, width, height, objectness, scores>>
    confidence_threshold,
    nms_threshold,
    invert_affine_matrix,
    parray,         \* the image's slice of output_array_device: [count, rows]
    decodeRan,      \* positions whose decode_kernel thread has run
    nmsRan,         \* positions whose nms_kernel thread has run
    image_based_boxes,  \* the boxes handed to the job's promise
    \* one MixMemory block
    cpu_,           \* NullPtr, a buffer the block allocated (> 0) or an adopted one (< 0)
    cpu_size_,
    owner_cpu_,
    gpu_,
    gpu_size_,
    owner_gpu_,
    live,           \* <<buffer, bytes>> of the allocations made and not yet freed
    freed,          \* the buffers passed to cudaFree / cudaFreeHost so far
    destroyed,      \* the block's destructor has run
    nAlloc,         \* number of successful cudaMalloc / cudaMallocHost calls
    \* calls made by a holder of a MonopolyDataPointer
    releaseLog,     \* <<slot, "freed" | "noop">> of each release() call made by a holder
    \* one Tensor, whose data_ is the MixMemory block
    shape_,
    bytes_,
    head_,          \* DataHead: "Init" | "Device" | "Host"
    tcall,          \* the last call made on the tensor ("copy_oob": a copy_from_gpu
                    \* that one of the two range checks turned away)
    issued          \* the copy the last call handed to cudaMemcpyAsync:
                    \* <<kind, bytes, bytes of the buffer read or written>>, or <<>>

ctlVars  == <<cpc, stops, stopsReturned, joins, startOk, raised>>
typeVars == <<mtype, normalize>>
gpuVars  == <<hostWs, stream, gpuLag>>
dispVars == <<run, jobsLockHeld, jobs, workerHandle, sig, alloc>>
wrkVars  == <<wpc, fetch, ibatch, batchIn, batchAff, outArr, maxBatch, batches>>
poolVars == <<poolAlive, prun, plock, avail, numAvail, numWait, cap, slotData>>
prodVars == <<ppc, script, pidx, pepoch, pbs, results>>
jobVars  == <<setCalls, val, mono, img, pushIdx, nPushed, dequeued, drained>>
kernelVars == <<kpc, predict, confidence_threshold, nms_threshold, invert_affine_matrix, parray,
                decodeRan, nmsRan, image_based_boxes>>
memVars  == <<cpu_, cpu_size_, owner_cpu_, gpu_, gpu_size_, owner_gpu_, live, freed, nAlloc,
              destroyed>>
callVars == <<releaseLog>>
tensorVars == <<shape_, bytes_, head_, tcall, issued>>
sideVars == <<callVars, tensorVars>>
compVars == <<kernelVars, memVars, sideVars>>
coreVars == <<ctlVars, typeVars, gpuVars, dispVars, wrkVars, poolVars, prodVars, jobVars, crashed, ub>>
vars     == <<coreVars, compVars>>

\* ------------------------------------------------------------------ Init
\* no decode has been launched
KernelIdle ==
    /\ kpc = "idle" /\ predict = <<>>
    /\ confidence_threshold = 0 /\ nms_threshold = 0
    /\ invert_affine_matrix = <<>>
    /\ parray = [count |-> 0, rows |-> <<>>]
    /\ decodeRan = {} /\ nmsRan = {}
    /\ image_based_boxes = <<>>

NullPtr == 0

\* MixMemory(int device_id): the member initialisers
FreshBlock ==
    /\ cpu_ = NullPtr /\ cpu_size_ = 0 /\ owner_cpu_ = TRUE
    /\ gpu_ = NullPtr /\ gpu_size_ = 0 /\ owner_gpu_ = TRUE
    /\ live = {} /\ freed = {} /\ nAlloc = 0 /\ destroyed = FALSE

\* The state after construction of a YoloInferImpl whose engine has
\* max_batch_size mb, about to be started for a model of kind t; lag tells
\* whether the device may run behind the host.
CoreInit(mb, t, lag) ==
    /\ cpc = "init" /\ stops = 0 /\ stopsReturned = 0 /\ joins = 0
    /\ startOk = "unknown" /\ raised = FALSE
    /\ mtype = t /\ normalize = "None"
    /\ hostWs = <<>> /\ stream = <<>> /\ gpuLag = lag
    /\ run = FALSE /\ jobsLockHeld = FALSE /\ jobs = <<>>
    /\ workerHandle = FALSE /\ sig = "none" /\ alloc = FALSE
    /\ wpc = "none" /\ fetch = <<>> /\ ibatch = 0
    /\ maxBatch = mb
    /\ batchIn = [i \in 1..maxBatch |-> NoJob]
    /\ batchAff = [i \in 1..maxBatch |-> NoJob]
    /\ outArr = [i \in 1..maxBatch |-> NoJob]
    /\ batches = <<>>
    /\ poolAlive = FALSE /\ prun = FALSE /\ plock = 0
    /\ avail = <<>> /\ numAvail = 0 /\ numWait = 0 /\ cap = 0 /\ slotData = <<>>
    /\ ppc = [p \in Producers |-> "idle"]
    /\ script = [p \in Producers |-> <<"none", 0>>]
    /\ pidx = [p \in Producers |-> 0]
    /\ pepoch = [p \in Producers |-> 0]
    /\ pbs = [p \in Producers |-> 0]
    /\ results = [p \in Producers |-> <<>>]
    /\ setCalls = [j \in Jobs |-> 0]
    /\ val = [j \in Jobs |-> NoVal]
    /\ mono = [j \in Jobs |-> NoSlot]
    /\ img = [j \in Jobs |-> NoJob]
    /\ pushIdx = [j \in Jobs |-> 0] /\ nPushed = 0
    /\ dequeued = {} /\ drained = {}
    /\ crashed = FALSE /\ ub = FALSE

\* no holder has called release() yet
NoCalls == releaseLog = <<>>

\* Tensor(): setup_data on a block of its own, and the member initialisers
FreshTensor ==
    /\ shape_ = <<>> /\ bytes_ = 0 /\ head_ = "Init"
    /\ tcall = "none" /\ issued = <<>>

InitWith(mb, t, lag) ==
    CoreInit(mb, t, lag) /\ KernelIdle /\ FreshBlock /\ NoCalls /\ FreshTensor

\* the copies and kernels enqueued on the stream run behind the host
StreamInit == \E mb \in 1..MaxBatch : InitWith(mb, "V5", TRUE)

Init == \E mb \in 1..MaxBatch : InitWith(mb, "V5", FALSE)

\* create_infer called with any kind
CreateInit == \E mb \in 1..MaxBatch, t \in Types : InitWith(mb, t, FALSE)

\* ------------------------------------------------------- std::promise
\* promise::set_value on job j from thread context: the first call stores
\* the value, any later call stores nothing and throws future_error.
Satisfied(j) == setCalls[j] > 0

\* ------------------------------------------------- InferController::stop
\* Index of the first queued job whose promise is already satisfied
\* (Len + 1 when there is none): the drain loop throws there.
RECURSIVE FirstSatisfied(_, _)
FirstSatisfied(q, k) ==
    IF k > Len(q) THEN k
    ELSE IF Satisfied(q[k]) THEN k
    ELSE FirstSatisfied(q, k + 1)

\* Jobs the drain loop fulfils with Output() and pops.
DrainPopped(q) == { q[k] : k \in 1..(FirstSatisfied(q, 1) - 1) }

\* YoloInferImpl::startup (normalize_ by kind; an unknown kind is only
\* logged) followed by InferController::startup up to the thread creation
Startup ==
    /\ ~crashed
    /\ cpc = "init"
    /\ normalize' = (IF mtype = "V5" THEN "AlphaBeta"
                     ELSE IF mtype = "X" THEN "None"
                     ELSE normalize)
    /\ run' = TRUE
    /\ workerHandle' = TRUE
    /\ wpc' = "load"
    /\ cpc' = "starting"
    /\ UNCHANGED <<compVars, mtype, gpuVars, stops, stopsReturned, joins, startOk, raised, jobsLockHeld, jobs, sig, alloc,
                   fetch, ibatch, batchIn, batchAff, outArr, maxBatch, batches,
                   poolVars, prodVars, jobVars, crashed, ub>>

\* (variant in which startup does not wait for the worker's signal)
SignalNotAwaited == TRUE

\* pro.get_future().get() returns once the worker has set the promise
SignalReceived == sig # "none"

\* startup: return pro.get_future().get();
StartupReturn ==
    /\ ~crashed
    /\ cpc = "starting"
    /\ SignalReceived
    /\ startOk' = (IF sig = "ok" THEN "true" ELSE "false")
    /\ cpc' = "up"
    /\ UNCHANGED <<compVars, typeVars, gpuVars, stops, stopsReturned, joins, raised, dispVars, wrkVars, poolVars, prodVars,
                   jobVars, crashed, ub>>

\* run_ = false
StopBegin ==
    /\ ~crashed
    /\ cpc = "up"
    /\ stops < MaxStops
    /\ stops' = stops + 1
    /\ run' = FALSE
    /\ cpc' = "s_notify"
    /\ UNCHANGED <<compVars, typeVars, gpuVars, stopsReturned, joins, startOk, raised, jobsLockHeld, jobs, workerHandle, sig,
                   alloc, wrkVars, poolVars, prodVars, jobVars, crashed, ub>>

\* cond_.notify_all(): only a thread blocked in cond_.wait is woken
StopNotify ==
    /\ ~crashed
    /\ cpc = "s_notify"
    /\ wpc' = (IF wpc = "gjw_wait" THEN "gjw_woken" ELSE wpc)
    /\ cpc' = "s_drain"
    /\ UNCHANGED <<compVars, typeVars, gpuVars, stops, stopsReturned, joins, startOk, raised, dispVars, fetch, ibatch, batchIn,
                   batchAff, outArr, maxBatch, batches, poolVars, prodVars, jobVars, crashed, ub>>

\* the clean-up loop, under jobs_lock_
StopDrain ==
    /\ ~crashed
    /\ cpc = "s_drain"
    /\ ~jobsLockHeld
    /\ LET k == FirstSatisfied(jobs, 1)
           popped == DrainPopped(jobs)
       IN  /\ val' = [j \in Jobs |-> IF j \in popped THEN EmptyOut ELSE val[j]]
           /\ drained' = drained \cup popped
           /\ IF k > Len(jobs)
                THEN /\ jobs' = <<>>
                     /\ setCalls' = [j \in Jobs |-> IF j \in popped THEN 1 ELSE setCalls[j]]
                     /\ cpc' = "s_join"
                     /\ raised' = raised
                ELSE \* set_value on a satisfied promise: future_error leaves stop()
                     /\ jobs' = SubSeq(jobs, k, Len(jobs))
                     /\ setCalls' = [j \in Jobs |-> IF j \in popped THEN 1
                                                    ELSE IF j = jobs[k] THEN 2
                                                    ELSE setCalls[j]]
                     /\ cpc' = "up"
                     /\ raised' = TRUE
    /\ UNCHANGED <<compVars, typeVars, gpuVars, stops, stopsReturned, joins, startOk, run, jobsLockHeld, workerHandle, sig,
                   alloc, wrkVars, poolVars, prodVars, mono, img, pushIdx, nPushed, dequeued,
                   crashed, ub>>

\* if(worker_){ worker_->join(); worker_.reset(); }
StopJoin ==
    /\ ~crashed
    /\ cpc = "s_join"
    /\ IF workerHandle
         THEN /\ wpc = "done"
              /\ workerHandle' = FALSE
              /\ joins' = joins + 1
         ELSE UNCHANGED <<workerHandle, joins>>
    /\ cpc' = "up"
    /\ stopsReturned' = stopsReturned + 1
    /\ UNCHANGED <<compVars, typeVars, gpuVars, stops, startOk, raised, run, jobsLockHeld, jobs, sig, alloc, wrkVars,
                   poolVars, prodVars, jobVars, crashed, ub>>

\* ------------------------------------------------------ MonopolyAllocator
Slots == 1..cap

\* (variant in which the search ignores the available_ flags)
FirstOfAll ==
    IF cap > 0 THEN 1 ELSE NoSlot

\* std::find_if over datas_: the first slot flagged available (NoSlot = end())
FirstAvailable ==
    IF \E s \in Slots : avail[s]
      THEN CHOOSE s \in Slots : avail[s] /\ \A t \in Slots : avail[t] => s <= t
      ELSE NoSlot

\* num_available_ after a slot has been handed out (num_available_--)
NumAvailNoDecrement(n) == n

NumAvailAfterAcquire(n) == n - 1

\* (variant in which query never waits)
NeverWait(n) == FALSE

\* if(num_available_ == 0): the caller has to wait
MustWait(n) == n = 0

\* (variant in which the test after the wait does not look at run_)
NoSlotIgnoresRun(state) == ~state \/ numAvail = 0

\* if(!state || num_available_ == 0 || !run_) return nullptr;
NoSlotAfterWait(state) == ~state \/ numAvail = 0 \/ ~prun

\* the predicate of cv_.wait_for
QueryPred == numAvail > 0 \/ ~prun

\* threads blocked in cv_.wait_for
PoolWaiters == { p \in Producers : ppc[p] = "q_wait" }

\* (variant releasing a slot whatever its state)
AnyState(s) == TRUE

\* if(!prq->available_) in release_one
InUse(s) == ~avail[s]

\* ------------------------------------------- commit / commits / preprocess
Kind(p)  == script[p][1]
NIn(p)   == script[p][2]
Begin(p) == pepoch[p] * pbs[p] + 1
EndWholeList(p) == NIn(p)

End(p)   == Min(NIn(p), pepoch[p] * pbs[p] + pbs[p])
NEpoch(p) == (NIn(p) + pbs[p] - 1) \div pbs[p]
CurJob(p) == jid(p, pidx[p])

\* the jobs of the current group, in input order
RECURSIVE Group(_, _, _)
Group(p, b, e) == IF b > e THEN <<>> ELSE <<jid(p, b)>> \o Group(p, b + 1, e)

\* index whose future slot results[i] receives the job's future
ResultSlot(p) == pidx[p]

\* The data path of preprocess for slot s and image m: memcpy of the image
\* and its matrix into the slot's pinned host workspace, then, on the
\* stream, the two host-to-device copies and the warp kernel that fill the
\* slot's device memory from it.
Staged(s, m) ==
    /\ hostWs' = [hostWs EXCEPT ![s] = m]
    /\ IF gpuLag
         THEN /\ stream' = Append(stream, <<"prep", s, m>>)
              /\ slotData' = slotData
         ELSE /\ slotData' = [slotData EXCEPT ![s] = m]
              /\ stream' = stream

\* (variant in which commit pushes a job whose preprocessing failed)
ItemDoneQueuesFailure(p, s) ==
    LET j == CurJob(p) IN
    /\ IF s = NoSlot
         THEN /\ setCalls' = [setCalls EXCEPT ![j] = 1]
              /\ val' = [val EXCEPT ![j] = EmptyOut]
              /\ UNCHANGED <<mono, img, slotData, hostWs, stream>>
         ELSE /\ mono' = [mono EXCEPT ![j] = s]
              /\ img' = [img EXCEPT ![j] = jid(p, pidx[p])]
              /\ Staged(s, jid(p, pidx[p]))
              /\ UNCHANGED <<setCalls, val>>
    /\ IF Kind(p) = "commit"
         THEN /\ ppc' = [ppc EXCEPT ![p] = "push"]
              /\ results' = [results EXCEPT ![p] = IF s = NoSlot THEN Append(@, j) ELSE @]
              /\ pidx' = pidx
         ELSE /\ results' = [results EXCEPT ![p] =
                               [i \in 1..Len(@) |-> IF i = ResultSlot(p) THEN j ELSE @[i]]]
              /\ IF pidx[p] < End(p)
                   THEN /\ pidx' = [pidx EXCEPT ![p] = @ + 1]
                        /\ ppc' = [ppc EXCEPT ![p] = "pre"]
                   ELSE /\ pidx' = pidx
                        /\ ppc' = [ppc EXCEPT ![p] = "push"]

\* End of the preprocessing of the current item; s = NoSlot when preprocess
\* returned false.  commit: a failure fulfils the promise and returns, a
\* success goes on to the push.  commits: a failure fulfils the promise; in
\* both cases results[i] is assigned and the loop goes on.
ItemDone(p, s) ==
    LET j == CurJob(p) IN
    /\ IF s = NoSlot
         THEN /\ setCalls' = [setCalls EXCEPT ![j] = 1]
              /\ val' = [val EXCEPT ![j] = EmptyOut]
              /\ UNCHANGED <<mono, img, slotData, hostWs, stream>>
         ELSE /\ mono' = [mono EXCEPT ![j] = s]
              /\ img' = [img EXCEPT ![j] = jid(p, pidx[p])]
              /\ Staged(s, jid(p, pidx[p]))
              /\ UNCHANGED <<setCalls, val>>
    /\ IF Kind(p) = "commit"
         THEN /\ ppc' = [ppc EXCEPT ![p] = IF s = NoSlot THEN "done" ELSE "push"]
              /\ results' = [results EXCEPT ![p] = IF s = NoSlot THEN Append(@, j) ELSE @]
              /\ pidx' = pidx
         ELSE /\ results' = [results EXCEPT ![p] =
                               [i \in 1..Len(@) |-> IF i = ResultSlot(p) THEN j ELSE @[i]]]
              /\ IF pidx[p] < End(p)
                   THEN /\ pidx' = [pidx EXCEPT ![p] = @ + 1]
                        /\ ppc' = [ppc EXCEPT ![p] = "pre"]
                   ELSE /\ pidx' = pidx
                        /\ ppc' = [ppc EXCEPT ![p] = "push"]

\* number of inputs handed to commit / commits by producers 1..n so far
RECURSIVE Submitted(_)
Submitted(n) == IF n = 0 THEN 0 ELSE script[n][2] + Submitted(n - 1)

\* a client thread calls commit(image) or commits(images) on the handle
\* it got from a successful start-up
ProdCall(p) ==
    /\ ~crashed
    /\ ppc[p] = "idle"
    /\ startOk = "true"
    /\ \E sc \in ({<<"commit", 1>>} \cup {<<"commits", n>> : n \in 0..MaxInputs}) :
         /\ sc[2] + Submitted(NumProducers) <= MaxJobs
         /\ script' = [script EXCEPT ![p] = sc]
         /\ IF sc[1] = "commit"
              THEN /\ ppc' = [ppc EXCEPT ![p] = "pre"]
                   /\ pidx' = [pidx EXCEPT ![p] = 1]
                   /\ pbs' = [pbs EXCEPT ![p] = 1]
              ELSE /\ ppc' = [ppc EXCEPT ![p] = "begin"]
                   /\ UNCHANGED <<pidx, pbs>>
    /\ UNCHANGED <<compVars, typeVars, gpuVars, pepoch, results, ctlVars, dispVars, wrkVars, poolVars, jobVars, crashed, ub>>

\* (variant in which commits works on groups of one input)
BatchSizeOne(n, c) == Min(n, 1)

\* int batch_size = min((int)inputs.size(), this->tensor_allocator_->capacity());
BatchSize(n, c) == Min(n, c)

\* commits, up to the first epoch: batch_size, the vectors, nepoch
CommitsBegin(p) ==
    /\ ~crashed
    /\ ppc[p] = "begin"
    /\ \E c \in (IF alloc THEN {cap} ELSE 0..(2 * MaxBatch)) :
         \* tensor_allocator_ == nullptr: the call of capacity() is undefined;
         \* it faults (c = 0 stands for the fault) or reads some value
         LET bs == BatchSize(NIn(p), c) IN
         IF (~alloc /\ c = 0)
           THEN /\ crashed' = TRUE
                /\ UNCHANGED <<ppc, pbs, pidx, results, ub>>
           ELSE IF bs = 0
             THEN \* inputs.size() == 0: integer division by zero, undefined:
                  \* the process traps, or nepoch is 0 and an empty list returns
                  \/ /\ crashed' = TRUE
                     /\ UNCHANGED <<ppc, pbs, pidx, results, ub>>
                  \/ /\ ppc' = [ppc EXCEPT ![p] = "done"]
                     /\ ub' = TRUE
                     /\ UNCHANGED <<pbs, pidx, results, crashed>>
             ELSE /\ pbs' = [pbs EXCEPT ![p] = bs]
                  /\ pidx' = [pidx EXCEPT ![p] = 1]
                  /\ results' = [results EXCEPT ![p] = [i \in 1..NIn(p) |-> NoJob]]
                  /\ ppc' = [ppc EXCEPT ![p] = "pre"]
                  /\ crashed' = crashed
                  /\ ub' = (ub \/ ~alloc)
    /\ UNCHANGED <<compVars, typeVars, gpuVars, script, pepoch, ctlVars, dispVars, wrkVars, poolVars, jobVars>>

\* preprocess: if(tensor_allocator_ == nullptr) return false;
PreCheck(p) ==
    /\ ~crashed
    /\ ppc[p] = "pre"
    /\ IF alloc
         THEN /\ ppc' = [ppc EXCEPT ![p] = "query"]
              /\ UNCHANGED <<pidx, results, setCalls, val, mono, img, slotData, hostWs, stream>>
         ELSE ItemDone(p, NoSlot)
    /\ UNCHANGED <<compVars, typeVars, gpuLag, script, pepoch, pbs, ctlVars, dispVars, wrkVars,
                   poolAlive, prun, plock, avail, numAvail, numWait, cap,
                   pushIdx, nPushed, dequeued, drained, crashed, ub>>

\* MonopolyAllocator::query up to the wait, and the rest of preprocess when
\* a slot is obtained at once
Query(p) ==
    /\ ~crashed
    /\ ppc[p] = "query"
    /\ IF ~poolAlive
         THEN \* the pool was destroyed after the null check: the call is
              \* undefined; it faults, or finds run_ false and returns nullptr
              /\ \/ /\ crashed' = TRUE
                    /\ UNCHANGED <<ppc, pidx, results, setCalls, val, mono, img, slotData,
                                   hostWs, stream, ub>>
                 \/ /\ ItemDone(p, NoSlot)
                    /\ ub' = TRUE
                    /\ crashed' = crashed
              /\ UNCHANGED <<plock, avail, numAvail, numWait>>
         ELSE /\ plock = 0
              /\ UNCHANGED <<crashed, ub>>
              /\ IF ~prun
                   THEN /\ ItemDone(p, NoSlot)
                        /\ UNCHANGED <<plock, avail, numAvail, numWait>>
                   ELSE IF MustWait(numAvail)
                     THEN /\ numWait' = numWait + 1
                          /\ plock' = p
                          /\ ppc' = [ppc EXCEPT ![p] = "q_window"]
                          /\ UNCHANGED <<pidx, results, setCalls, val, mono, img, slotData,
                                         hostWs, stream, avail, numAvail>>
                     ELSE LET s == FirstAvailable IN
                          /\ ItemDone(p, s)
                          /\ IF s = NoSlot
                               THEN UNCHANGED <<avail, numAvail>>
                               ELSE /\ avail' = [avail EXCEPT ![s] = FALSE]
                                    /\ numAvail' = NumAvailAfterAcquire(numAvail)
                          /\ UNCHANGED <<plock, numWait>>
    /\ UNCHANGED <<compVars, typeVars, gpuLag, script, pepoch, pbs, ctlVars, dispVars, wrkVars, poolAlive,
                   prun, cap, pushIdx, nPushed, dequeued, drained>>

\* cv_.wait_for releases lock_ and blocks
QueryBlock(p) ==
    /\ ~crashed
    /\ ppc[p] = "q_window"
    /\ plock' = 0
    /\ ppc' = [ppc EXCEPT ![p] = "q_wait"]
    /\ UNCHANGED <<compVars, typeVars, gpuVars, script, pidx, pepoch, pbs, results, ctlVars, dispVars, wrkVars, poolAlive,
                   prun, avail, numAvail, numWait, cap, slotData, jobVars, crashed, ub>>

\* the timeout of cv_.wait_for expires
QueryTimeout(p) ==
    /\ ~crashed
    /\ ppc[p] = "q_wait"
    /\ ppc' = [ppc EXCEPT ![p] = "q_timeout"]
    /\ UNCHANGED <<compVars, typeVars, gpuVars, script, pidx, pepoch, pbs, results, ctlVars, dispVars, wrkVars, poolVars,
                   jobVars, crashed, ub>>

\* a spurious wake-up of cv_.wait_for
QuerySpurious(p) ==
    /\ ~crashed
    /\ ppc[p] = "q_wait"
    /\ ppc' = [ppc EXCEPT ![p] = "q_woken"]
    /\ UNCHANGED <<compVars, typeVars, gpuVars, script, pidx, pepoch, pbs, results, ctlVars, dispVars, wrkVars, poolVars,
                   jobVars, crashed, ub>>

\* MonopolyAllocator::query after the wait: the thread has lock_ again;
\* woken with the predicate false it waits again, otherwise wait_for
\* returns the predicate and the rest of query (and of preprocess) runs
QueryResume(p) ==
    /\ ~crashed
    /\ ppc[p] \in {"q_woken", "q_timeout"}
    /\ plock = 0
    /\ IF ppc[p] = "q_woken" /\ ~QueryPred
         THEN /\ plock' = p
              /\ ppc' = [ppc EXCEPT ![p] = "q_window"]
              /\ UNCHANGED <<pidx, results, setCalls, val, mono, img, slotData,
                             hostWs, stream, avail, numAvail, numWait>>
         ELSE LET state == QueryPred
                  s == IF NoSlotAfterWait(state) THEN NoSlot ELSE FirstAvailable
              IN /\ numWait' = numWait - 1
                 /\ ItemDone(p, s)
                 /\ IF s = NoSlot
                      THEN UNCHANGED <<avail, numAvail>>
                      ELSE /\ avail' = [avail EXCEPT ![s] = FALSE]
                           /\ numAvail' = NumAvailAfterAcquire(numAvail)
                 /\ plock' = plock
    /\ UNCHANGED <<compVars, typeVars, gpuLag, script, pepoch, pbs, ctlVars, dispVars, wrkVars, poolAlive,
                   prun, cap, pushIdx, nPushed, dequeued, drained, crashed, ub>>

\* the push under jobs_lock_: commit pushes its job, commits pushes every
\* job of the group
Push(p) ==
    /\ ~crashed
    /\ ppc[p] = "push"
    /\ ~jobsLockHeld
    /\ LET g == IF Kind(p) = "commit" THEN <<CurJob(p)>> ELSE Group(p, Begin(p), End(p)) IN
       /\ jobs' = jobs \o g
       /\ pushIdx' = [j \in Jobs |->
                        IF \E k \in 1..Len(g) : g[k] = j
                          THEN nPushed + (CHOOSE k \in 1..Len(g) : g[k] = j)
                          ELSE pushIdx[j]]
       /\ nPushed' = nPushed + Len(g)
    /\ ppc' = [ppc EXCEPT ![p] = "notify"]
    /\ UNCHANGED <<compVars, typeVars, gpuVars, script, pidx, pepoch, pbs, results, ctlVars, run, jobsLockHeld, workerHandle,
                   sig, alloc, wrkVars, poolVars, setCalls, val, mono, img, dequeued, drained,
                   crashed, ub>>

\* cond_.notify_one(), then the return of commit or the next epoch of commits
Notify(p) ==
    /\ ~crashed
    /\ ppc[p] = "notify"
    /\ wpc' = (IF wpc = "gjw_wait" THEN "gjw_woken" ELSE wpc)
    /\ IF Kind(p) = "commit"
         THEN /\ results' = [results EXCEPT ![p] = Append(@, CurJob(p))]
              /\ ppc' = [ppc EXCEPT ![p] = "done"]
              /\ UNCHANGED <<pepoch, pidx>>
         ELSE /\ pepoch' = [pepoch EXCEPT ![p] = @ + 1]
              /\ IF pepoch[p] + 1 < NEpoch(p)
                   THEN /\ pidx' = [pidx EXCEPT ![p] = (pepoch[p] + 1) * pbs[p] + 1]
                        /\ ppc' = [ppc EXCEPT ![p] = "pre"]
                   ELSE /\ pidx' = pidx
                        /\ ppc' = [ppc EXCEPT ![p] = "done"]
              /\ results' = results
    /\ UNCHANGED <<compVars, typeVars, gpuVars, script, pbs, ctlVars, dispVars, fetch, ibatch, batchIn, batchAff, outArr,
                   maxBatch, batches, poolVars, jobVars, crashed, ub>>

\* ------------------------------------------------- YoloInferImpl::worker
\* load_infer, then either the failure signal and the return, or the
\* construction of the pool (capacity 2 * max_batch_size) and the success
\* signal
\* (variant in which the pool has three slots per image of a batch)
PoolCapacityTriple(mb) == mb * 3

\* make_shared<MonopolyAllocator<Tensor>>(max_batch_size * 2)
PoolCapacity(mb) == mb * 2

WorkerLoad ==
    /\ ~crashed
    /\ wpc = "load"
    /\ \/ /\ sig' = "fail"
          /\ wpc' = "done"
          /\ UNCHANGED <<alloc, poolVars, hostWs>>
       \/ /\ sig' = "ok"
          /\ alloc' = TRUE
          /\ poolAlive' = TRUE
          /\ prun' = TRUE
          /\ cap' = PoolCapacity(maxBatch)
          /\ numAvail' = PoolCapacity(maxBatch)
          /\ avail' = [s \in 1..PoolCapacity(maxBatch) |-> TRUE]
          /\ slotData' = [s \in 1..PoolCapacity(maxBatch) |-> NoJob]
          /\ hostWs' = [s \in 1..PoolCapacity(maxBatch) |-> NoJob]
          /\ wpc' = "gjw"
          /\ UNCHANGED <<plock, numWait>>
    /\ UNCHANGED <<compVars, typeVars, stream, gpuLag, ctlVars, run, jobsLockHeld, jobs, workerHandle, fetch,
                   ibatch, batchIn, batchAff, outArr, maxBatch, batches, prodVars, jobVars,
                   crashed, ub>>

\* the predicate of cond_.wait
GjwPredQueueOnly == jobs # <<>>

GjwPred == ~run \/ jobs # <<>>

\* (variant in which get_jobs_and_wait takes the whole queue)
FetchAll(n, maxSize) == n

\* number of jobs get_jobs_and_wait moves out of a queue of length n
FetchCount(n, maxSize) == Min(maxSize, n)

\* the n jobs moved to fetch_jobs: jobs_.front() and pop(), n times
TakeBack(q, n) == [k \in 1..n |-> q[Len(q) + 1 - k]]

TakeFront(q, n) == SubSeq(q, 1, n)

\* the queue left behind
Remaining(q, taken) == SelectSeq(q, LAMBDA j : j \notin { taken[k] : k \in 1..Len(taken) })

\* get_jobs_and_wait with jobs_lock_ taken (on entry, or when woken): with
\* the predicate false the worker goes on to wait, still holding the lock;
\* otherwise it returns false when run_ is false, else its batch
GjwCheck ==
    /\ ~crashed
    /\ wpc \in {"gjw", "gjw_woken"}
    /\ ~jobsLockHeld
    /\ IF ~GjwPred
         THEN /\ jobsLockHeld' = TRUE
              /\ wpc' = "gjw_window"
              /\ UNCHANGED <<jobs, fetch, ibatch, dequeued>>
         ELSE IF ~run
           THEN /\ wpc' = "exit"
                /\ UNCHANGED <<jobsLockHeld, jobs, fetch, ibatch, dequeued>>
           ELSE LET n == FetchCount(Len(jobs), maxBatch) IN
                /\ fetch' = TakeFront(jobs, n)
                /\ jobs' = Remaining(jobs, TakeFront(jobs, n))
                /\ dequeued' = dequeued \cup { TakeFront(jobs, n)[k] : k \in 1..n }
                /\ ibatch' = 1
                /\ wpc' = "copy"
                /\ UNCHANGED jobsLockHeld
    /\ UNCHANGED <<compVars, typeVars, gpuVars, ctlVars, run, workerHandle, sig, alloc, batchIn, batchAff, outArr, maxBatch,
                   batches, poolVars, prodVars, setCalls, val, mono, img, pushIdx, nPushed,
                   drained, crashed, ub>>

\* cond_.wait releases jobs_lock_ and blocks
GjwBlock ==
    /\ ~crashed
    /\ wpc = "gjw_window"
    /\ jobsLockHeld' = FALSE
    /\ wpc' = "gjw_wait"
    /\ UNCHANGED <<compVars, typeVars, gpuVars, ctlVars, run, jobs, workerHandle, sig, alloc, fetch, ibatch, batchIn, batchAff,
                   outArr, maxBatch, batches, poolVars, prodVars, jobVars, crashed, ub>>

\* a spurious wake-up of cond_.wait
GjwSpurious ==
    /\ ~crashed
    /\ wpc = "gjw_wait"
    /\ wpc' = "gjw_woken"
    /\ UNCHANGED <<compVars, typeVars, gpuVars, ctlVars, dispVars, fetch, ibatch, batchIn, batchAff, outArr, maxBatch,
                   batches, poolVars, prodVars, jobVars, crashed, ub>>

\* one iteration of the first loop: the device-to-device copies of the
\* slot's workspace matrix and tensor to batch index ibatch are enqueued on
\* the stream, then job.mono_tensor->release() (release_one under lock_,
\* waking one waiter)
WorkerCopy ==
    /\ ~crashed
    /\ wpc = "copy"
    /\ LET j == fetch[ibatch]
           s == mono[j]
           next == IF ibatch < Len(fetch) THEN "copy" ELSE "infer"
       IN
       IF s = NoSlot
         THEN \* job.mono_tensor is nullptr: undefined; the worker faults, or
              \* goes on with nothing copied and nothing released
              /\ \/ /\ crashed' = TRUE
                    /\ UNCHANGED <<wpc, ibatch, ub>>
                 \/ /\ crashed' = crashed
                    /\ ub' = TRUE
                    /\ wpc' = next
                    /\ ibatch' = IF next = "copy" THEN ibatch + 1 ELSE 1
              /\ UNCHANGED <<batchIn, batchAff, stream, avail, numAvail, ppc>>
         ELSE /\ plock = 0
              /\ IF gpuLag
                   THEN /\ stream' = Append(stream, <<"copy", ibatch, s>>)
                        /\ UNCHANGED <<batchAff, batchIn>>
                   ELSE /\ batchAff' = [batchAff EXCEPT ![ibatch] = slotData[s]]
                        /\ batchIn' = [batchIn EXCEPT ![ibatch] = slotData[s]]
                        /\ stream' = stream
              /\ IF InUse(s)
                   THEN /\ avail' = [avail EXCEPT ![s] = TRUE]
                        /\ numAvail' = numAvail + 1
                        /\ IF PoolWaiters = {}
                             THEN ppc' = ppc
                             ELSE \E w \in PoolWaiters : ppc' = [ppc EXCEPT ![w] = "q_woken"]
                   ELSE UNCHANGED <<avail, numAvail, ppc>>
              /\ wpc' = next
              /\ ibatch' = IF next = "copy" THEN ibatch + 1 ELSE 1
              /\ UNCHANGED <<crashed, ub>>
    /\ UNCHANGED <<compVars, typeVars, hostWs, gpuLag, ctlVars, dispVars, fetch, outArr, maxBatch, batches,
                   poolAlive, prun, plock, numWait, cap, slotData, script, pidx, pepoch, pbs,
                   results, jobVars>>

\* engine->forward, the decode of every image of the batch from its own
\* rows of the input and affine tensors, and output_array_device.to_cpu(),
\* whose copy and synchronisation on the default stream return once the
\* device has run what was enqueued before: the copies of the batch and
\* the forward and decode kernels.  (Operations that producers enqueue
\* meanwhile touch no tensor of the batch.)
WorkerInfer ==
    /\ ~crashed
    /\ wpc = "infer"
    /\ stream = <<>>
    /\ outArr' = [i \in 1..maxBatch |->
                    IF i <= Len(fetch)
                      THEN (IF batchAff[i] = batchIn[i] THEN batchIn[i] ELSE NoJob)
                      ELSE outArr[i]]
    /\ batches' = Append(batches, Len(fetch))
    /\ wpc' = "fulfil"
    /\ ibatch' = 1
    /\ UNCHANGED <<compVars, typeVars, gpuVars, ctlVars, dispVars, fetch, batchIn, batchAff, maxBatch, poolVars, prodVars,
                   jobVars, crashed, ub>>

ReverseOrder(i, n) == n + 1 - i

\* the batch index the i-th iteration of the last loop (of n) works on:
\* for(int ibatch = 0; ibatch < infer_batch_size; ++ibatch)
BatchOrder(i, n) == i

\* one iteration of the last loop: job.pro->set_value(image_based_boxes);
\* after the last one fetch_jobs.clear() and the loop goes back to
\* get_jobs_and_wait.  set_value on a satisfied promise throws in the
\* worker thread, which terminates the process.
WorkerFulfil ==
    /\ ~crashed
    /\ wpc = "fulfil"
    /\ LET b == BatchOrder(ibatch, Len(fetch))
           j == fetch[b]
       IN
       IF Satisfied(j)
         THEN /\ setCalls' = [setCalls EXCEPT ![j] = 2]
              /\ crashed' = TRUE
              /\ UNCHANGED <<val, wpc, ibatch, fetch>>
         ELSE /\ setCalls' = [setCalls EXCEPT ![j] = 1]
              /\ val' = [val EXCEPT ![j] = outArr[b]]
              /\ crashed' = crashed
              /\ IF ibatch < Len(fetch)
                   THEN /\ ibatch' = ibatch + 1
                        /\ UNCHANGED <<wpc, fetch>>
                   ELSE /\ ibatch' = 0
                        /\ fetch' = <<>>
                        /\ wpc' = "gjw"
    /\ UNCHANGED <<compVars, typeVars, gpuVars, ctlVars, dispVars, batchIn, batchAff, outArr, maxBatch, batches, poolVars,
                   prodVars, mono, img, pushIdx, nPushed, dequeued, drained, ub>>

\* The device executes the oldest operation of the stream, reading its
\* source when it runs: <<"prep", s, m>>, enqueued by the preprocess of
\* image m, fills the device memory of slot s from the slot's pinned host
\* workspace; <<"copy", i, s>> fills batch index i of the input and affine
\* tensors from the device memory of slot s.
StreamExec ==
    /\ ~crashed
    /\ stream # <<>>
    /\ LET op == Head(stream) IN
       IF op[1] = "prep"
         THEN /\ slotData' = [slotData EXCEPT ![op[2]] = hostWs[op[2]]]
              /\ UNCHANGED <<batchIn, batchAff>>
         ELSE /\ batchIn' = [batchIn EXCEPT ![op[2]] = slotData[op[3]]]
              /\ batchAff' = [batchAff EXCEPT ![op[2]] = slotData[op[3]]]
              /\ slotData' = slotData
    /\ stream' = Tail(stream)
    /\ UNCHANGED <<compVars, typeVars, hostWs, gpuLag, ctlVars, dispVars, wpc, fetch, ibatch, outArr,
                   maxBatch, batches, poolAlive, prun, plock, avail, numAvail, numWait, cap,
                   prodVars, jobVars, crashed, ub>>

\* after the loop: stream_ = nullptr; tensor_allocator_.reset() leaves the
\* member null and runs ~MonopolyAllocator
WorkerExit ==
    /\ ~crashed
    /\ wpc = "exit"
    /\ alloc' = FALSE
    /\ wpc' = "x_run"
    /\ UNCHANGED <<compVars, typeVars, gpuVars, ctlVars, run, jobsLockHeld, jobs, workerHandle, sig, fetch, ibatch, batchIn,
                   batchAff, outArr, maxBatch, batches, poolVars, prodVars, jobVars, crashed, ub>>

\* ~MonopolyAllocator: run_ = false
PoolDtorRun ==
    /\ ~crashed
    /\ wpc = "x_run"
    /\ prun' = FALSE
    /\ wpc' = "x_notify"
    /\ UNCHANGED <<compVars, typeVars, gpuVars, ctlVars, dispVars, fetch, ibatch, batchIn, batchAff, outArr, maxBatch,
                   batches, poolAlive, plock, avail, numAvail, numWait, cap, slotData, prodVars,
                   jobVars, crashed, ub>>

\* ~MonopolyAllocator: cv_.notify_all()
PoolDtorNotify ==
    /\ ~crashed
    /\ wpc = "x_notify"
    /\ ppc' = [p \in Producers |-> IF ppc[p] = "q_wait" THEN "q_woken" ELSE ppc[p]]
    /\ wpc' = "x_wait"
    /\ UNCHANGED <<compVars, typeVars, gpuVars, ctlVars, dispVars, fetch, ibatch, batchIn, batchAff, outArr, maxBatch,
                   batches, poolVars, script, pidx, pepoch, pbs, results, jobVars, crashed, ub>>

\* (variant in which the destructor does not wait for the waiters)
DtorNeverWaits(n) == TRUE

\* the predicate of cv_exit_.wait
DtorMayFinish(n) == n = 0

\* ~MonopolyAllocator: under lock_, wait until num_wait_thread_ == 0; then
\* the pool is gone and the worker thread returns
PoolDtorWait ==
    /\ ~crashed
    /\ wpc = "x_wait"
    /\ plock = 0
    /\ DtorMayFinish(numWait)
    /\ poolAlive' = FALSE
    /\ wpc' = "done"
    /\ UNCHANGED <<compVars, typeVars, gpuVars, ctlVars, dispVars, fetch, ibatch, batchIn, batchAff, outArr, maxBatch,
                   batches, prun, plock, avail, numAvail, numWait, cap, slotData, prodVars,
                   jobVars, crashed, ub>>

\* ------------------------------------------- decode and NMS kernels
\* decode_kernel_invoker on the output rows of one image, followed by the
\* worker's read-back of the image's slice.  Probabilities (objectness,
\* class scores, thresholds) are in tenths and a confidence, the product of
\* two of them, in hundredths; coordinates are integers and widths and
\* heights even, so that width * 0.5f is exact.

\* rows the network can output: <<cx, cy, width, height, objectness, scores>>
Predictions ==
    { <<2, 2, 4, 4, 9, <<9, 1>>>>,
      <<3, 2, 4, 4, 9, <<9, 1>>>>,
      <<3, 2, 4, 4, 8, <<9, 1>>>>,
      <<3, 2, 4, 4, 9, <<1, 9>>>>,
      <<2, 2, 4, 4, 9, <<4, 3>>>>,
      <<4, 2, 4, 4, 4, <<9, 9>>>> }

\* the 2x3 matrices mapping network coordinates back to the image
Matrices == { <<1, 0, 0, 0, 1, 0>>, <<2, 0, 1, 0, 2, 1>> }

ConfidenceThresholds == {3, 5}

NmsThresholds == {5, 6}

\* what the image's slice holds beyond its counter when decode is launched:
\* rows left by an earlier image (the worker clears the counter only)
StaleRow == <<0, 0, 1, 1, 0, 0, 1>>

AsHundredths(tenths) == tenths * 10

\* affine_project
affine_project(matrix, x, y) ==
    <<matrix[1] * x + matrix[2] * y + matrix[3], matrix[4] * x + matrix[5] * y + matrix[6]>>

\* the class loop of decode_kernel: index (1-based) of the largest score,
\* the first one among equals
BestClass(scores) ==
    CHOOSE i \in 1..Len(scores) :
        /\ \A k \in 1..Len(scores) : scores[k] <= scores[i]
        /\ \A k \in 1..(i - 1) : scores[k] < scores[i]

\* (variant testing the objectness only)
DroppedOnObjectness(objectness, confidence, threshold) == objectness < threshold

\* the two early returns of decode_kernel
Dropped(objectness, confidence, threshold) ==
    objectness < threshold \/ confidence < AsHundredths(threshold)

\* the row decode_kernel writes for pitem
DecodedRow(pitem, confidence, label) ==
    LET lt == affine_project(invert_affine_matrix, pitem[1] - pitem[3] \div 2,
                             pitem[2] - pitem[4] \div 2)
        rb == affine_project(invert_affine_matrix, pitem[1] + pitem[3] \div 2,
                             pitem[2] + pitem[4] \div 2)
    IN <<lt[1], lt[2], rb[1], rb[2], confidence, label, 1>>

\* the decode_kernel thread of one position (threads at positions beyond
\* num_bboxes return at once)
DecodeThread(position) ==
    /\ ~crashed
    /\ kpc = "launched"
    /\ position \in (1..Len(predict)) \ decodeRan
    /\ decodeRan' = decodeRan \cup {position}
    /\ LET pitem == predict[position]
           objectness == pitem[5]
           best == BestClass(pitem[6])
           confidence == pitem[6][best] * objectness
           index == parray.count
       IN
       IF Dropped(objectness, confidence, confidence_threshold)
         THEN parray' = parray
         ELSE IF index >= MaxObjects
           THEN parray' = [parray EXCEPT !.count = index + 1]
           ELSE parray' = [count |-> index + 1,
                           rows |-> [parray.rows EXCEPT
                                       ![index + 1] = DecodedRow(pitem, confidence, best - 1)]]
    /\ UNCHANGED <<coreVars, memVars, sideVars, kpc, predict, confidence_threshold, nms_threshold,
                   invert_affine_matrix, nmsRan, image_based_boxes>>

Max(a, b) == IF a > b THEN a ELSE b

\* box_iou of two rows, as the fraction <<numerator, denominator>>
box_iou(a, b) ==
    LET cleft == Max(a[1], b[1])
        ctop == Max(a[2], b[2])
        cright == Min(a[3], b[3])
        cbottom == Min(a[4], b[4])
        c_area == Max(cright - cleft, 0) * Max(cbottom - ctop, 0)
        a_area == Max(0, a[3] - a[1]) * Max(0, a[4] - a[2])
        b_area == Max(0, b[3] - b[1]) * Max(0, b[4] - b[2])
    IN IF c_area = 0 THEN <<0, 1>> ELSE <<c_area, a_area + b_area - c_area>>

\* iou > threshold
IouAbove(iou, threshold) == iou[1] * 10 > threshold * iou[2]

\* (variant comparing boxes of any two classes)
AnyClass(pcurrent, pitem) == TRUE

\* pcurrent[5] != pitem[5] skips the pair
SameClass(pcurrent, pitem) == pcurrent[6] = pitem[6]

\* (variant in which the box at the higher index yields on equal confidence)
TieSkipsHigher(i, position) == i > position

\* on equal confidence the box at position is not compared with box i
TieSkips(i, position) == i < position

\* int count = min((int)*bboxes, max_objects)
NmsCount == Min(parray.count, MaxObjects)

\* box i makes the nms_kernel thread of position clear its keep flag
Suppresses(i, position) ==
    LET pitem == parray.rows[i]
        pcurrent == parray.rows[position]
    IN /\ i # position
       /\ SameClass(pcurrent, pitem)
       /\ pitem[5] >= pcurrent[5]
       /\ ~(pitem[5] = pcurrent[5] /\ TieSkips(i, position))
       /\ IouAbove(box_iou(pcurrent, pitem), nms_threshold)

\* the nms_kernel thread of one position; the kernel runs on the stream
\* after decode_kernel has completed
NmsThread(position) ==
    /\ ~crashed
    /\ kpc = "launched"
    /\ decodeRan = 1..Len(predict)
    /\ position \in (1..MaxObjects) \ nmsRan
    /\ nmsRan' = nmsRan \cup {position}
    /\ IF position <= NmsCount /\ \E i \in 1..NmsCount : Suppresses(i, position)
         THEN parray' = [parray EXCEPT !.rows[position][7] = 0]
         ELSE parray' = parray
    /\ UNCHANGED <<coreVars, memVars, sideVars, kpc, predict, confidence_threshold, nms_threshold,
                   invert_affine_matrix, decodeRan, image_based_boxes>>

\* the rows with keepflag == 1 among the first n, in index order, without
\* their flag
RECURSIVE KeptBoxes(_, _)
KeptBoxes(rows, n) ==
    IF n = 0 THEN <<>>
    ELSE IF rows[n][7] = 1
      THEN Append(KeptBoxes(rows, n - 1), SubSeq(rows[n], 1, 6))
      ELSE KeptBoxes(rows, n - 1)

\* (variant reading the whole slice whatever the counter says)
WholeSlice(count) == MaxObjects

\* int count = min(MAX_IMAGE_BBOX, (int)*parray)
ReadCount(count) == Min(MaxObjects, count)

\* output_array_device.to_cpu() and the worker's loop over the image's
\* slice
ReadBack ==
    /\ ~crashed
    /\ kpc = "launched"
    /\ nmsRan = 1..MaxObjects
    /\ image_based_boxes' = KeptBoxes(parray.rows, ReadCount(parray.count))
    /\ kpc' = "done"
    /\ UNCHANGED <<coreVars, memVars, sideVars, predict, confidence_threshold, nms_threshold,
                   invert_affine_matrix, parray, decodeRan, nmsRan>>

\* ------------------------------------------------------------ MixMemory
\* One block and the calls a client makes on it.  A buffer the block
\* allocates is named by the serial number of the allocation; buffers
\* handed to reference_data are named by negative numbers.

\* (variant in which a release frees whatever the block points to)
AlwaysOwned(flag) == TRUE

\* if(owner_gpu_) / if(owner_cpu_) in the release functions
Owned(flag) == flag

\* the buffer release_gpu() passes to cudaFree, if any
GpuFrees == IF gpu_ # NullPtr /\ Owned(owner_gpu_) THEN {gpu_} ELSE {}

\* the buffer release_cpu() passes to cudaFreeHost, if any
CpuFrees == IF cpu_ # NullPtr /\ Owned(owner_cpu_) THEN {cpu_} ELSE {}

\* the live allocations once the buffers of ptrs have been freed
Freed(ptrs) == { a \in live : a[1] \notin ptrs }

\* MixMemory::gpu(size).  A failing cudaMalloc is logged by check_runtime
\* and leaves gpu_ null, the cudaMemset on it fails and is logged as well,
\* and the call returns.
GpuCall(size) ==
    IF gpu_size_ < size
      THEN /\ gpu_size_' = size
           /\ freed' = freed \cup GpuFrees
           /\ \/ /\ nAlloc < MaxAllocs
                 /\ nAlloc' = nAlloc + 1
                 /\ gpu_' = nAlloc + 1
                 /\ live' = Freed(GpuFrees) \cup {<<nAlloc + 1, size>>}
              \/ /\ gpu_' = NullPtr
                 /\ live' = Freed(GpuFrees)
                 /\ nAlloc' = nAlloc
      ELSE UNCHANGED <<gpu_, gpu_size_, live, freed, nAlloc>>

\* MixMemory::cpu(size).  A failing cudaMallocHost is logged and leaves
\* cpu_ null; the check of cpu_ != nullptr that follows then logs at level
\* Fatal, which calls abort().
CpuCall(size) ==
    IF cpu_size_ < size
      THEN /\ cpu_size_' = size
           /\ freed' = freed \cup CpuFrees
           /\ \/ /\ nAlloc < MaxAllocs
                 /\ nAlloc' = nAlloc + 1
                 /\ cpu_' = nAlloc + 1
                 /\ live' = Freed(CpuFrees) \cup {<<nAlloc + 1, size>>}
                 /\ crashed' = crashed
              \/ /\ cpu_' = NullPtr
                 /\ live' = Freed(CpuFrees)
                 /\ nAlloc' = nAlloc
                 /\ crashed' = TRUE
      ELSE UNCHANGED <<cpu_, cpu_size_, live, freed, nAlloc, crashed>>

\* MixMemory::release_all: release_cpu(), release_gpu()
ReleaseAll ==
    /\ live' = Freed(CpuFrees \cup GpuFrees)
    /\ freed' = freed \cup CpuFrees \cup GpuFrees
    /\ cpu_' = NullPtr /\ cpu_size_' = 0
    /\ gpu_' = NullPtr /\ gpu_size_' = 0

\* what a call on the block leaves alone besides the block's own members
MemFrame == <<ctlVars, typeVars, gpuVars, dispVars, wrkVars, poolVars, prodVars, jobVars, ub,
              kernelVars, sideVars>>

MemGpu(size) ==
    /\ ~crashed /\ ~destroyed
    /\ GpuCall(size)
    /\ UNCHANGED <<MemFrame, crashed, cpu_, cpu_size_, owner_cpu_, owner_gpu_, destroyed>>

MemCpu(size) ==
    /\ ~crashed /\ ~destroyed
    /\ CpuCall(size)
    /\ UNCHANGED <<MemFrame, gpu_, gpu_size_, owner_cpu_, owner_gpu_, destroyed>>

\* MixMemory::release_gpu
MemReleaseGpu ==
    /\ ~crashed /\ ~destroyed
    /\ live' = Freed(GpuFrees)
    /\ freed' = freed \cup GpuFrees
    /\ gpu_' = NullPtr
    /\ gpu_size_' = 0
    /\ UNCHANGED <<MemFrame, crashed, cpu_, cpu_size_, owner_cpu_, owner_gpu_, nAlloc, destroyed>>

\* MixMemory::release_cpu
MemReleaseCpu ==
    /\ ~crashed /\ ~destroyed
    /\ live' = Freed(CpuFrees)
    /\ freed' = freed \cup CpuFrees
    /\ cpu_' = NullPtr
    /\ cpu_size_' = 0
    /\ UNCHANGED <<MemFrame, crashed, gpu_, gpu_size_, owner_cpu_, owner_gpu_, nAlloc, destroyed>>

\* MixMemory::release_all called by the client
MemReleaseAll ==
    /\ ~crashed /\ ~destroyed
    /\ ReleaseAll
    /\ UNCHANGED <<MemFrame, crashed, owner_cpu_, owner_gpu_, nAlloc, destroyed>>

\* MixMemory::reference_data(cpu, cpu_size, gpu, gpu_size): release_all(),
\* then the block adopts the buffers it is given; a null pointer or a size
\* of zero adopts nothing on that side
MemReference(cpu, cpu_size, gpu, gpu_size) ==
    /\ ~crashed /\ ~destroyed
    /\ live' = Freed(CpuFrees \cup GpuFrees)
    /\ freed' = freed \cup CpuFrees \cup GpuFrees
    /\ IF cpu = NullPtr \/ cpu_size = 0
         THEN cpu_' = NullPtr /\ cpu_size_' = 0 /\ owner_cpu_' = TRUE
         ELSE cpu_' = cpu /\ cpu_size_' = cpu_size /\ owner_cpu_' = FALSE
    /\ IF gpu = NullPtr \/ gpu_size = 0
         THEN gpu_' = NullPtr /\ gpu_size_' = 0 /\ owner_gpu_' = TRUE
         ELSE gpu_' = gpu /\ gpu_size_' = gpu_size /\ owner_gpu_' = FALSE
    /\ UNCHANGED <<MemFrame, crashed, nAlloc, destroyed>>

\* MixMemory::~MixMemory: release_all()
MemDestroy ==
    /\ ~crashed /\ ~destroyed
    /\ ReleaseAll
    /\ destroyed' = TRUE
    /\ UNCHANGED <<MemFrame, crashed, owner_cpu_, owner_gpu_, nAlloc>>

\* ------------------------------------------------------------- Tensor
\* sizeof(float)
element_size == 4

\* the dimension arguments a caller passes: a size, or -1 to keep the
\* dimension as it is
DimArgs == {0 - 1} \cup (0..MaxDim)

DimLists == UNION { [1..n -> DimArgs] : n \in 0..MaxRank }

RECURSIVE Product(_)
Product(shape) ==
    IF shape = <<>> THEN 1 ELSE shape[1] * Product(Tail(shape))

\* Tensor::numel
numel(shape) == IF shape = <<>> THEN 0 ELSE Product(shape)

\* (variant that also invalidates on a resize to the same size)
GrowsOrKeeps(needed_size, bytes) == needed_size >= bytes

\* if(needed_size > this->bytes_)
Grows(needed_size, bytes) == needed_size > bytes

\* what a call on the tensor leaves alone besides the tensor and its block
TensorFrame == <<ctlVars, typeVars, gpuVars, dispVars, wrkVars, poolVars, prodVars, jobVars, ub,
                 kernelVars, callVars>>

\* the bytes of the buffer ptr points to, size being the block's size field
Capacity(ptr, size) ==
    IF ptr < 0 THEN size
    ELSE IF \E a \in live : a[1] = ptr
      THEN (CHOOSE a \in live : a[1] = ptr)[2]
      ELSE 0

\* resize(ndims, dims) from its assignment of shape_ on, with
\* adajust_memory_by_update_dims_or_type
SetShape(name, setup_dims) ==
    LET needed_size == numel(setup_dims) * element_size IN
    /\ shape_' = setup_dims
    /\ head_' = IF Grows(needed_size, bytes_) THEN "Init" ELSE head_
    /\ bytes_' = needed_size
    /\ tcall' = name
    /\ issued' = <<>>
    /\ UNCHANGED <<TensorFrame, memVars, crashed>>

\* a failed check of the call: the process aborts
TensorAbort(name) ==
    /\ crashed' = TRUE
    /\ tcall' = name
    /\ issued' = <<>>
    /\ UNCHANGED <<TensorFrame, memVars, shape_, bytes_, head_>>

\* Tensor::resize(ndims, dims)
TensorResize(dims) ==
    /\ ~crashed /\ ~destroyed
    /\ IF (\E i \in DOMAIN dims : dims[i] = 0 - 1) /\ Len(dims) # Len(shape_)
         THEN TensorAbort("resize")
         ELSE SetShape("resize", [i \in DOMAIN dims |->
                                    IF dims[i] = 0 - 1 THEN shape_[i] ELSE dims[i]])

\* Tensor::resize_single_dim(idim, size), idim counting from 0
TensorResizeSingleDim(idim, size) ==
    /\ ~crashed /\ ~destroyed
    /\ IF idim >= Len(shape_)
         THEN TensorAbort("resize_single_dim")
         ELSE SetShape("resize_single_dim",
                       [shape_ EXCEPT ![idim + 1] = IF size = 0 - 1 THEN @ ELSE size])

\* Tensor::to_gpu(copy)
TensorToGpu(copy) ==
    /\ ~crashed /\ ~destroyed
    /\ tcall' = "to_gpu"
    /\ IF head_ = "Device"
         THEN /\ issued' = <<>>
              /\ UNCHANGED <<head_, gpu_, gpu_size_, live, freed, nAlloc>>
         ELSE /\ head_' = "Device"
              /\ GpuCall(bytes_)
              /\ issued' = IF copy /\ cpu_ # NullPtr
                             THEN <<"HostToDevice", bytes_, Capacity(cpu_, cpu_size_)>>
                             ELSE <<>>
    /\ UNCHANGED <<TensorFrame, crashed, shape_, bytes_, cpu_, cpu_size_, owner_cpu_,
                   owner_gpu_, destroyed>>

\* Tensor::to_cpu(copy)
TensorToCpu(copy) ==
    /\ ~crashed /\ ~destroyed
    /\ tcall' = "to_cpu"
    /\ IF head_ = "Host"
         THEN /\ issued' = <<>>
              /\ UNCHANGED <<head_, cpu_, cpu_size_, live, freed, nAlloc, crashed>>
         ELSE /\ head_' = "Host"
              /\ CpuCall(bytes_)
              /\ issued' = IF ~crashed' /\ copy /\ gpu_ # NullPtr
                             THEN <<"DeviceToHost", bytes_, Capacity(gpu_, gpu_size_)>>
                             ELSE <<>>
    /\ UNCHANGED <<TensorFrame, shape_, bytes_, gpu_, gpu_size_, owner_cpu_, owner_gpu_,
                   destroyed>>

\* Tensor::copy_from_gpu(offset, src, num_element): to_gpu(false) if the
\* head is Init, the two range checks, then the copy into the side the
\* head names
TensorCopyFromGpu(offset, num_element) ==
    LET offset_location == offset * element_size
        copyed_bytes == num_element * element_size
        remain_bytes == bytes_ - offset_location
        out_of_range == offset_location >= bytes_ \/ copyed_bytes > remain_bytes
    IN
    /\ ~crashed /\ ~destroyed
    /\ IF head_ = "Init"
         THEN head_' = "Device" /\ GpuCall(bytes_)
         ELSE UNCHANGED <<head_, gpu_, gpu_size_, live, freed, nAlloc>>
    /\ IF out_of_range
         THEN tcall' = "copy_oob" /\ issued' = <<>>
         ELSE /\ tcall' = "copy_from_gpu"
              /\ issued' = IF head_' = "Device"
                             THEN <<"IntoDevice", copyed_bytes,
                                    Capacity(gpu_', gpu_size_') - offset_location>>
                             ELSE <<"IntoHost", copyed_bytes,
                                    Capacity(cpu_, cpu_size_) - offset_location>>
    /\ UNCHANGED <<TensorFrame, crashed, shape_, bytes_, cpu_, cpu_size_, owner_cpu_,
                   owner_gpu_, destroyed>>

\* Tensor::release
TensorRelease ==
    /\ ~crashed /\ ~destroyed
    /\ ReleaseAll
    /\ shape_' = <<>>
    /\ bytes_' = 0
    /\ head_' = "Init"
    /\ tcall' = "release"
    /\ issued' = <<>>
    /\ UNCHANGED <<TensorFrame, crashed, owner_cpu_, owner_gpu_, nAlloc, destroyed>>

TensorInit == CoreInit(1, "V5", FALSE) /\ KernelIdle /\ FreshBlock /\ NoCalls /\ FreshTensor

TensorNext ==
    \/ \E dims \in DimLists : TensorResize(dims)
    \/ \E idim \in 0..MaxRank, size \in DimArgs : TensorResizeSingleDim(idim, size)
    \/ \E copy \in BOOLEAN : TensorToGpu(copy) \/ TensorToCpu(copy)
    \/ \E offset \in 0..MaxDim, num_element \in 0..MaxDim : TensorCopyFromGpu(offset, num_element)
    \/ TensorRelease

TensorSpec == TensorInit /\ [][TensorNext]_vars

\* ------------------------------------------- one client, several images
\* The client thread (producer 1) submits n images: in one commits call, or
\* by a first commit call that CommitAgain repeats.
ScenarioCall(n) ==
    /\ ~crashed
    /\ ppc[1] = "idle"
    /\ startOk = "true"
    /\ \/ /\ script' = [script EXCEPT ![1] = <<"commits", n>>]
          /\ ppc' = [ppc EXCEPT ![1] = "begin"]
          /\ UNCHANGED <<pidx, pbs>>
       \/ /\ script' = [script EXCEPT ![1] = <<"commit", 1>>]
          /\ ppc' = [ppc EXCEPT ![1] = "pre"]
          /\ pidx' = [pidx EXCEPT ![1] = 1]
          /\ pbs' = [pbs EXCEPT ![1] = 1]
    /\ UNCHANGED <<compVars, typeVars, gpuVars, pepoch, results, ctlVars, dispVars, wrkVars, poolVars, jobVars,
                   crashed, ub>>

\* commit has returned and the client calls it for its next image
CommitAgain(n) ==
    /\ ~crashed
    /\ ppc[1] = "done"
    /\ Kind(1) = "commit"
    /\ NIn(1) < n
    /\ script' = [script EXCEPT ![1] = <<"commit", NIn(1) + 1>>]
    /\ pidx' = [pidx EXCEPT ![1] = @ + 1]
    /\ ppc' = [ppc EXCEPT ![1] = "pre"]
    /\ UNCHANGED <<compVars, typeVars, gpuVars, pbs, pepoch, results, ctlVars, dispVars, wrkVars, poolVars, jobVars,
                   crashed, ub>>

\* ------------------------------------ several clients, one commits each
\* Client thread p calls commits with n images, once.
ContendCall(p, n) ==
    /\ ~crashed
    /\ ppc[p] = "idle"
    /\ startOk = "true"
    /\ script[p] = <<"none", 0>>
    /\ script' = [script EXCEPT ![p] = <<"commits", n>>]
    /\ ppc' = [ppc EXCEPT ![p] = "begin"]
    /\ UNCHANGED <<compVars, typeVars, gpuVars, pidx, pbs, pepoch, results, ctlVars, dispVars, wrkVars, poolVars,
                   jobVars, crashed, ub>>

\* ------------------------------------------------------------------ Next
Controller == Startup \/ StartupReturn \/ StopBegin \/ StopNotify \/ StopDrain \/ StopJoin

Worker ==
    \/ WorkerLoad \/ GjwCheck \/ GjwBlock \/ GjwSpurious \/ WorkerCopy \/ WorkerInfer
    \/ WorkerFulfil \/ WorkerExit \/ PoolDtorRun \/ PoolDtorNotify \/ PoolDtorWait

Producer(p) ==
    \/ ProdCall(p) \/ CommitsBegin(p) \/ PreCheck(p) \/ Query(p) \/ QueryBlock(p)
    \/ QueryTimeout(p) \/ QuerySpurious(p) \/ QueryResume(p) \/ Push(p) \/ Notify(p)

Next == Controller \/ Worker \/ \E p \in Producers : Producer(p)

Spec == Init /\ [][Next]_vars

\* The program on a device that runs behind the host
StreamNext == Next \/ StreamExec

StreamSpec == StreamInit /\ [][StreamNext]_vars

\* One client thread submitting 5 images to a dispatcher whose engine has
\* max_batch_size 2 (pool capacity 4)
ScenarioInit == InitWith(2, "V5", FALSE)

ScenarioNext ==
    \/ Controller \/ Worker
    \/ ScenarioCall(5) \/ CommitAgain(5)
    \/ CommitsBegin(1) \/ PreCheck(1) \/ Query(1) \/ QueryBlock(1) \/ QueryTimeout(1)
    \/ QuerySpurious(1) \/ QueryResume(1) \/ Push(1) \/ Notify(1)

ScenarioSpec == ScenarioInit /\ [][ScenarioNext]_vars

\* Client threads that each submit 2 images in one commits call, to a
\* dispatcher whose engine has max_batch_size 1 (pool capacity 2)
ContendInit == InitWith(1, "V5", FALSE)

ContendNext ==
    \/ Controller \/ Worker
    \/ \E p \in Producers :
          \/ ContendCall(p, 2) \/ CommitsBegin(p) \/ PreCheck(p) \/ Query(p) \/ QueryBlock(p)
          \/ QueryTimeout(p) \/ QuerySpurious(p) \/ QueryResume(p) \/ Push(p) \/ Notify(p)

ContendSpec == ContendInit /\ [][ContendNext]_vars

\* ----------------------------------- a holder releasing its slot again
\* MonopolyData::release() called on slot s by a holder of its pointer:
\* release_one under lock_
ReleaseCall(s) ==
    /\ ~crashed
    /\ poolAlive
    /\ s \in 1..cap
    /\ plock = 0
    /\ Len(releaseLog) < MaxReleases
    /\ IF InUse(s)
         THEN /\ avail' = [avail EXCEPT ![s] = TRUE]
              /\ numAvail' = numAvail + 1
              /\ IF PoolWaiters = {}
                   THEN ppc' = ppc
                   ELSE \E w \in PoolWaiters : ppc' = [ppc EXCEPT ![w] = "q_woken"]
              /\ releaseLog' = Append(releaseLog, <<s, "freed">>)
         ELSE /\ releaseLog' = Append(releaseLog, <<s, "noop">>)
              /\ UNCHANGED <<avail, numAvail, ppc>>
    /\ UNCHANGED <<ctlVars, typeVars, gpuVars, dispVars, wrkVars, poolAlive, prun, plock, numWait,
                   cap, slotData, script, pidx, pepoch, pbs, results, jobVars, crashed, ub,
                   kernelVars, memVars, tensorVars>>

PoolInit == InitWith(1, "V5", FALSE)

\* the detector is started and serves its clients; it is not stopped
PoolNext ==
    \/ Startup \/ StartupReturn
    \/ WorkerLoad \/ GjwCheck \/ GjwBlock \/ GjwSpurious \/ WorkerCopy \/ WorkerInfer
    \/ WorkerFulfil
    \/ \E p \in Producers :
          \/ ContendCall(p, 2) \/ CommitsBegin(p) \/ PreCheck(p) \/ Query(p) \/ QueryBlock(p)
          \/ QueryTimeout(p) \/ QuerySpurious(p) \/ QueryResume(p) \/ Push(p) \/ Notify(p)
    \/ \E s \in 1..(2 * MaxBatch) : ReleaseCall(s)

PoolSpec == PoolInit /\ [][PoolNext]_vars

\* decode_kernel_invoker launched on the rows of one image, its counter
\* cleared by the worker's cudaMemsetAsync
DetectInit ==
    /\ CoreInit(1, "V5", FALSE)
    /\ FreshBlock
    /\ NoCalls
    /\ FreshTensor
    /\ kpc = "launched"
    /\ predict \in UNION { [1..n -> Predictions] : n \in 0..MaxBoxes }
    /\ confidence_threshold \in ConfidenceThresholds
    /\ nms_threshold \in NmsThresholds
    /\ invert_affine_matrix \in Matrices
    /\ parray = [count |-> 0, rows |-> [i \in 1..MaxObjects |-> StaleRow]]
    /\ decodeRan = {} /\ nmsRan = {}
    /\ image_based_boxes = <<>>

DetectNext ==
    \/ \E position \in 1..MaxBoxes : DecodeThread(position)
    \/ \E position \in 1..MaxObjects : NmsThread(position)
    \/ ReadBack

DetectSpec == DetectInit /\ [][DetectNext]_vars

\* the buffers a client can hand to reference_data
HostBuffers == {NullPtr, 0 - 1}

DeviceBuffers == {NullPtr, 0 - 2}

\* A MixMemory block and any sequence of calls on it
MemInit == CoreInit(1, "V5", FALSE) /\ KernelIdle /\ FreshBlock /\ NoCalls /\ FreshTensor

MemNext ==
    \/ \E size \in 1..MaxBytes : MemGpu(size) \/ MemCpu(size)
    \/ MemReleaseGpu \/ MemReleaseCpu \/ MemReleaseAll \/ MemDestroy
    \/ \E cpu \in HostBuffers, gpu \in DeviceBuffers, cpu_size, gpu_size \in 0..MaxBytes :
         MemReference(cpu, cpu_size, gpu, gpu_size)

MemSpec == MemInit /\ [][MemNext]_vars

\* the same program, created for a model of any kind
CreateSpec == CreateInit /\ [][Next]_vars

\* Fair scheduling: every thread that can take a step of the code
\* eventually takes one, and a timed wait eventually times out.  Nothing
\* obliges a client to make a call (ProdCall, StopBegin), and a condition
\* variable need not wake spuriously.
ControllerStep == Startup \/ StartupReturn \/ StopNotify \/ StopDrain \/ StopJoin

WorkerStep ==
    \/ WorkerLoad \/ GjwCheck \/ GjwBlock \/ WorkerCopy \/ WorkerInfer
    \/ WorkerFulfil \/ WorkerExit \/ PoolDtorRun \/ PoolDtorNotify \/ PoolDtorWait

ProducerStep(p) ==
    \/ CommitsBegin(p) \/ PreCheck(p) \/ Query(p) \/ QueryBlock(p)
    \/ QueryTimeout(p) \/ QueryResume(p) \/ Push(p) \/ Notify(p)

FairSpec ==
    /\ Spec
    /\ WF_vars(ControllerStep)
    /\ WF_vars(WorkerStep)
    /\ \A p \in Producers : WF_vars(ProducerStep(p))

\* ---------------------------------------------------------------- helpers
Range(q) == { q[k] : k \in 1..Len(q) }

Pos(q, j) == CHOOSE k \in 1..Len(q) : q[k] = j

Pushed(j) == pushIdx[j] > 0

\* the futures handed back to the clients so far
Futures == UNION { Range(results[p]) : p \in Producers } \ {NoJob}

CallReturned(p) == ppc[p] = "done"

\* ----------------------------------------------------------------- claims

\* C1: the promise of every job is set at most once; no path calls
\* set_value on a promise that a preprocessing failure, the worker or the
\* shutdown drain has already set.  Stated for the executions in which no
\* operation with undefined behaviour has been executed.
C1_PromiseSetOnce == ~ub => \A j \in Jobs : setCalls[j] <= 1

\* C2: every future handed out resolves.  Stated on the states where
\* nothing is left to run: stop() has returned, the worker has been joined,
\* no client call is in progress and the process is alive; there every
\* future returned by commit / commits holds a value.
AtRest ==
    /\ ~crashed /\ ~ub
    /\ cpc = "up" /\ stopsReturned >= 1
    /\ wpc = "done"
    /\ \A p \in Producers : ppc[p] \in {"idle", "done"}

C2_FuturesResolve == AtRest => \A j \in Futures : Satisfied(j)

\* C3: a stop() on a started dispatcher returns.  Stated for a stop()
\* called when no submission is in progress or can follow and nothing is
\* queued or in flight: under fair scheduling it reaches its return.
StopCalledQuiet ==
    /\ cpc = "s_notify"
    /\ startOk = "true"
    /\ \A p \in Producers : ppc[p] = "done"
    /\ jobs = <<>> /\ fetch = <<>>
    /\ ~crashed /\ ~ub

C3_StopReturns == StopCalledQuiet ~> (cpc = "up")

\* C4: when preprocess fails inside commit, the promise is fulfilled at once
\* with an empty output, the future is returned, and the job is never
\* pushed to the queue nor dequeued by the worker.
CommitFailed(p) ==
    /\ Kind(p) = "commit"
    /\ ppc[p] \in {"push", "notify", "done"}
    /\ mono[jid(p, 1)] = NoSlot

C4_CommitFailureNotQueued ==
    \A p \in Producers : CommitFailed(p) =>
        LET j == jid(p, 1) IN
        /\ ppc[p] = "done"
        /\ results[p] = <<j>>
        /\ setCalls[j] = 1 /\ val[j] = EmptyOut
        /\ ~Pushed(j)
        /\ j \notin Range(jobs) /\ j \notin Range(fetch)
        /\ j \notin dequeued /\ j \notin drained

C4_Witness ==
    \E p \in Producers :
        /\ CommitFailed(p) /\ CallReturned(p)
        /\ val[jid(p, 1)] = EmptyOut
        /\ alloc

\* C5: an item of commits whose preprocess failed is not enqueued, so every
\* job the worker dequeues holds a pool slot and an unfulfilled promise at
\* the time it is dequeued.
C5_DequeuedHoldSlot ==
    ~ub => \A j \in Range(fetch) : wpc = "copy" /\ ibatch = 1 =>
                /\ mono[j] # NoSlot
                /\ ~Satisfied(j)

\* C6 as stated: for queued jobs a pushed before b (both preprocessed
\* successfully), a is dequeued before b and a's promise is fulfilled no
\* later than b's.
Before(a, b) == Pushed(a) /\ Pushed(b) /\ pushIdx[a] < pushIdx[b]

DequeuedInOrder(a, b) ==
    b \in dequeued =>
        /\ a \in dequeued
        /\ a \in Range(fetch) => (b \in Range(fetch) /\ Pos(fetch, a) < Pos(fetch, b))

SetByWorker(j) == Satisfied(j) /\ val[j] # EmptyOut /\ val[j] # NoVal

InCommits(p) == Kind(p) = "commits" /\ ppc[p] \notin {"idle", "begin"}

\* inputs whose group has been pushed
PushedUpTo(p) ==
    IF ppc[p] \in {"notify", "done"} THEN Min(NIn(p), pepoch[p] * pbs[p] + pbs[p])
    ELSE Min(NIn(p), pepoch[p] * pbs[p])

C7_CommitsGroups ==
    \A p \in Producers : (InCommits(p) /\ NIn(p) > 0) =>
        /\ alloc => pbs[p] = Min(NIn(p), cap)
        /\ pbs[p] >= 1
        /\ \A i \in 1..NIn(p) : Pushed(jid(p, i)) <=> (i <= PushedUpTo(p) \/ ppc[p] = "done")
        /\ \A i \in 1..NIn(p) : i > pepoch[p] * pbs[p] + pbs[p] /\ ppc[p] # "done" =>
               (setCalls[jid(p, i)] = 0 /\ mono[jid(p, i)] = NoSlot)
        /\ \A i, k \in 1..NIn(p) :
               (i < k /\ Pushed(jid(p, i)) /\ Pushed(jid(p, k))) =>
                   /\ pushIdx[jid(p, i)] < pushIdx[jid(p, k)]
                   /\ ((i - 1) \div pbs[p] = (k - 1) \div pbs[p]) =>
                          pushIdx[jid(p, k)] - pushIdx[jid(p, i)] = k - i
        /\ CallReturned(p) =>
               /\ Len(results[p]) = NIn(p)
               /\ \A i \in 1..NIn(p) :
                      /\ results[p][i] = jid(p, i)
                      /\ mono[jid(p, i)] # NoSlot => img[jid(p, i)] = jid(p, i)

C7_Witness ==
    \E p \in Producers :
        /\ InCommits(p) /\ CallReturned(p)
        /\ NIn(p) > cap /\ pbs[p] = cap /\ pepoch[p] >= 2
        /\ \A i \in 1..NIn(p) : mono[jid(p, i)] # NoSlot
        /\ ~ub

\* C8: when stop() returns, every job that was pushed (after a successful
\* preprocess) has been settled: drained by stop() with an empty output, or
\* dequeued by the worker and fulfilled with its own results.
SettledByStop(j) ==
    \/ j \in drained /\ setCalls[j] = 1 /\ val[j] = EmptyOut
    \/ j \in dequeued /\ setCalls[j] = 1 /\ val[j] = j

C8_StopSettlesJobs ==
    [][(cpc = "s_join" /\ cpc' = "up" /\ ~ub) =>
          \A j \in Jobs : (Pushed(j) /\ mono[j] # NoSlot) => SettledByStop(j)]_vars

\* C9: a stop() called after a stop() has returned joins nothing, sets no
\* promise a second time and does not raise.
C9_SecondStopIdempotent ==
    [][(stopsReturned >= 1 /\ cpc # cpc' /\ ~ub) =>
          /\ joins' = joins
          /\ raised' = raised
          /\ \A j \in Jobs : setCalls'[j] <= 1]_vars

\* C10: the available counter equals the number of slots flagged available,
\* available plus in-use slots equals the capacity, and the capacity and the
\* number of slots stay those of the construction.
SlotsAvailable == { s \in 1..Len(avail) : avail[s] }
SlotsInUse     == { s \in 1..Len(avail) : ~avail[s] }

C10_PoolCounters ==
    (sig = "ok") =>
        /\ cap = 2 * maxBatch
        /\ Len(avail) = cap
        /\ numAvail = Cardinality(SlotsAvailable)
        /\ numAvail + Cardinality(SlotsInUse) = cap
        /\ numAvail \in 0..cap
        /\ numWait = Cardinality({ p \in Producers : ppc[p] \in {"q_window", "q_wait", "q_woken", "q_timeout"} })

C10_Witness ==
    /\ poolAlive /\ ~prun
    /\ numAvail = 1
    /\ \E p \in Producers : ppc[p] = "q_timeout"
    /\ dequeued # {}

\* C11: a pool slot is held exclusively.  A job holds the slot query()
\* returned to its preprocess from that return until the worker's
\* release(); no two jobs hold the same slot at once, and a held slot is
\* flagged unavailable, so no query() can return it meanwhile.
Released(j) ==
    /\ j \in dequeued
    /\ ~(wpc = "copy" /\ j \in Range(fetch) /\ Pos(fetch, j) >= ibatch)

Holding(j) == mono[j] # NoSlot /\ ~Released(j)

Holders(s) == { j \in Jobs : Holding(j) /\ mono[j] = s }

C11_SlotExclusive ==
    \A s \in 1..Len(avail) :
        /\ Cardinality(Holders(s)) <= 1
        /\ Holders(s) # {} => ~avail[s]

C11_Witness ==
    \E a, b \in Jobs :
        /\ a # b /\ mono[a] # NoSlot /\ mono[a] = mono[b]
        /\ Released(a) /\ Holding(b)
        /\ slotData[mono[b]] = b

\* C12: on a pool from which nothing has been released yet, callers beyond
\* the capacity block: when some caller is blocked, exactly capacity jobs
\* have a slot.  A query() on a running pool gets a slot at once when one is
\* free and blocks otherwise; a blocked caller obtains a slot only when one
\* is free, and the number of free slots grows only by a release.
Blocked(p) == ppc[p] \in {"q_window", "q_wait", "q_woken", "q_timeout"}

FreshPool == poolAlive /\ prun /\ dequeued = {}

WithSlot == { j \in Jobs : mono[j] # NoSlot }

QueryEntered(p) == ppc[p] = "query" /\ ppc'[p] # "query" /\ poolAlive /\ prun

ReleaseStep ==
    /\ wpc = "copy" /\ mono[fetch[ibatch]] # NoSlot
    /\ ~avail[mono[fetch[ibatch]]] /\ avail'[mono[fetch[ibatch]]]
    /\ numAvail' = numAvail + 1

C12_BlockedUntilRelease ==
    /\ [](\A p \in Producers : (FreshPool /\ Blocked(p)) =>
              (numAvail = 0 /\ Cardinality(WithSlot) = cap))
    /\ [][/\ \A p \in Producers : QueryEntered(p) =>
                 IF numAvail > 0
                   THEN mono'[CurJob(p)] # NoSlot /\ numWait' = numWait
                   ELSE ppc'[p] = "q_window" /\ mono'[CurJob(p)] = NoSlot
          /\ \A p \in Producers : (Blocked(p) /\ mono'[CurJob(p)] # NoSlot) =>
                 (numAvail > 0 /\ prun)
          /\ (poolAlive /\ numAvail' > numAvail) => ReleaseStep]_vars

C12_Witness ==
    /\ FreshPool /\ numAvail = 0
    /\ Cardinality(WithSlot) = cap
    /\ \E p \in Producers : ppc[p] = "q_wait"

\* C13 as stated: query() returns no slot when its wait times out with
\* nothing free, when the pool has been shut down, or when it wakes with
\* nothing free; then no slot flag and not the available counter changes
\* and the waiting-thread count goes back to its value before the call.
QueryStep(p) == poolAlive /\ ppc'[p] # ppc[p]

NullReturn(p) ==
    /\ ppc'[p] \notin {"query", "q_window", "q_wait", "q_woken", "q_timeout"}
    /\ mono'[CurJob(p)] = NoSlot
    /\ avail' = avail /\ numAvail' = numAvail

Awake(p) == ppc[p] \in {"q_woken", "q_timeout"}

C13_NullOnEveryWake ==
    [][\A p \in Producers : QueryStep(p) =>
          /\ (ppc[p] = "query" /\ ~prun) => (NullReturn(p) /\ numWait' = numWait)
          /\ (Awake(p) /\ (numAvail = 0 \/ ~prun)) =>
                 (NullReturn(p) /\ numWait' = numWait - 1)]_vars

\* C13 amended: query() returns no slot when its wait times out with
\* nothing free or when the pool has been shut down (found on entry or
\* after the wait); a thread woken with nothing free on a running pool
\* waits again.  Every return without a slot leaves the slot flags and the
\* available counter unchanged, and the waiting-thread count is raised by
\* one on the way into the wait and lowered by one on the way out.
C13_NullReturns ==
    [][\A p \in Producers : QueryStep(p) =>
          /\ (ppc[p] = "query" /\ ~prun) => (NullReturn(p) /\ numWait' = numWait)
          /\ (ppc[p] = "query" /\ prun /\ numAvail = 0) =>
                 /\ ppc'[p] = "q_window" /\ numWait' = numWait + 1
                 /\ avail' = avail /\ numAvail' = numAvail
          /\ (Awake(p) /\ ~prun) => (NullReturn(p) /\ numWait' = numWait - 1)
          /\ (ppc[p] = "q_timeout" /\ numAvail = 0) =>
                 (NullReturn(p) /\ numWait' = numWait - 1)
          /\ (ppc[p] = "q_woken" /\ prun /\ numAvail = 0) =>
                 /\ ppc'[p] = "q_window" /\ numWait' = numWait
                 /\ avail' = avail /\ numAvail' = numAvail
          /\ ((ppc[p] = "query" \/ Awake(p)) /\ ppc'[p] # "q_window"
                 /\ mono'[CurJob(p)] = NoSlot) =>
                 (avail' = avail /\ numAvail' = numAvail)]_vars

\* a query() on the live pool has timed out with nothing free and returned
\* no slot: its job is fulfilled with the empty output
C13_Witness ==
    /\ alloc /\ prun /\ numAvail = 0 /\ numWait = 0
    /\ \E p \in Producers :
          /\ ppc[p] \in {"done", "pre", "push", "notify"}
          /\ \E i \in 1..NIn(p) :
                /\ mono[jid(p, i)] = NoSlot /\ val[jid(p, i)] = EmptyOut
                /\ setCalls[jid(p, i)] = 1

\* C14: the destructor of the pool sets run_ false and its notify_all wakes
\* every thread blocked in the wait of query(); from then on every thread
\* that leaves the wait of query() returns no slot; and the destruction
\* completes only when no thread is counted as waiting inside query().
C14_PoolShutdown ==
    [][/\ (wpc = "x_notify" /\ wpc' = "x_wait") =>
             (~prun /\ \A p \in Producers : ppc[p] = "q_wait" => ppc'[p] = "q_woken")
       /\ \A p \in Producers : (Blocked(p) /\ ~prun /\ ~Blocked(p)') =>
             (mono'[CurJob(p)] = NoSlot /\ avail' = avail)
       /\ (poolAlive /\ ~poolAlive') =>
             (numWait = 0 /\ \A p \in Producers : ~Blocked(p))]_vars

C14_Witness ==
    /\ wpc = "x_wait" /\ ~prun /\ numWait > 0 /\ numAvail > 0
    /\ \E p \in Producers : ppc[p] = "q_woken"

\* C15: startup starts one worker thread and returns only after the worker
\* has signalled: false when the model failed to load (the worker has
\* returned and no pool was created), true when the pool exists with
\* capacity 2 * max_batch_size; after a true return the pool reference is
\* null only once a stop() has made the worker leave its loop, so no submit
\* fails because the pool is not constructed yet.
WorkerLeaving == wpc \in {"x_run", "x_notify", "x_wait", "done"}

C15_StartupSynchronous ==
    /\ (wpc # "none") <=> (cpc # "init")
    /\ startOk # "unknown" => sig # "none"
    /\ startOk = "false" =>
          (sig = "fail" /\ wpc = "done" /\ ~alloc /\ ~poolAlive /\ cap = 0)
    /\ startOk = "true" =>
          /\ sig = "ok" /\ cap = 2 * maxBatch /\ Len(avail) = cap
          /\ ~alloc => (stops >= 1 /\ ~run /\ WorkerLeaving)

C15_Witness ==
    /\ startOk = "true" /\ stops = 0
    /\ \E p \in Producers : ppc[p] = "push" /\ mono[CurJob(p)] # NoSlot

\* C18: every batch the worker takes, and every batch on which forward was
\* launched, has between 1 and max_batch_size jobs; the worker works on one
\* batch at a time: every job dequeued in an earlier batch has its promise
\* set before the next batch is dequeued.
C18_OneBoundedBatch ==
    /\ \A k \in 1..Len(batches) : batches[k] \in 1..maxBatch
    /\ Len(fetch) <= maxBatch
    /\ wpc \in {"copy", "infer", "fulfil"} <=> fetch # <<>>
    /\ \A j \in dequeued \ Range(fetch) : Satisfied(j)
    /\ Range(fetch) \subseteq dequeued
    /\ \A j \in Range(fetch) : j \notin Range(jobs)

C18_Witness ==
    /\ Len(batches) >= 2
    /\ wpc = "fulfil"
    /\ dequeued \ Range(fetch) # {}
    /\ jobs # <<>>

\* C19: at any time at most 2 * max_batch_size jobs hold a pool slot (from
\* the return of query() in their preprocess to the worker's release after
\* the copy into the batch input), whatever the number of producers.
SlotHolders == { j \in Jobs : Holding(j) }

C19_InFlightBound == Cardinality(SlotHolders) <= 2 * maxBatch

C19_Witness ==
    /\ Cardinality(SlotHolders) = 2 * maxBatch
    /\ \E p, q \in Producers :
          /\ p # q /\ ppc[q] = "q_wait"
          /\ \E j \in SlotHolders : jid(p, 1) <= j /\ j <= jid(p, MaxInputs)
    /\ dequeued # {}

\* C16: create_infer returns null when the model fails to load or when the
\* kind is not a supported one, and a handle otherwise.
Handle == IF startOk = "true" THEN "instance" ELSE "null"

Supported(t) == t \in {"V5", "X"}

C16_CreateNullOnBadKind ==
    startOk # "unknown" =>
        (Handle = "instance" <=> (sig = "ok" /\ Supported(mtype)))

\* C17 as stated: with pool capacity 4 and max_batch_size 2, 5 images
\* submitted by one client thread give exactly the batches 2, 2, 1 and 5
\* fulfilled futures, whatever the timing.  Read for the runs in which no
\* stop() is called and every image got its slot (no query() timed out).
ScenarioDone ==
    /\ stops = 0
    /\ ppc[1] = "done" /\ NIn(1) = 5
    /\ jobs = <<>> /\ fetch = <<>>
    /\ wpc \in {"gjw", "gjw_window", "gjw_wait", "gjw_woken"}

IsPrefix(a, b) == Len(a) <= Len(b) /\ \A k \in 1..Len(a) : a[k] = b[k]

RECURSIVE SumSeq(_)
SumSeq(q) == IF q = <<>> THEN 0 ELSE Head(q) + SumSeq(Tail(q))

C20_NoCrossSwap ==
    ~ub =>
        /\ \A j \in Jobs : SetByWorker(j) => val[j] = j
        /\ wpc = "fulfil" =>
              \A i \in 1..Len(fetch) :
                  /\ batchIn[i] = fetch[i]
                  /\ batchAff[i] = fetch[i]
                  /\ outArr[i] = fetch[i]

\* C26: the bytes a job's host-to-device copies consume are the bytes its
\* own preprocess staged: while the copies of image m are still queued on
\* the stream, the pinned host workspace of their slot holds m (no later
\* preprocess reusing the slot has written it).
PendingPrep(k) == k \in 1..Len(stream) /\ stream[k][1] = "prep"

C26_StagingNotOverwritten ==
    \A k \in 1..Len(stream) : PendingPrep(k) => hostWs[stream[k][2]] = stream[k][3]

\* C27: no producer thread uses the pool after the worker has destroyed
\* it: a thread that leaves the call of query() in preprocess made it on a
\* live pool.
C27_NoUseAfterDestroy ==
    [][(\E p \in Producers : ppc[p] = "query" /\ ppc'[p] # "query") => poolAlive]_vars

\* a step in which get_jobs_and_wait evaluates its wait predicate and acts
\* on it
GjwDecides == wpc \in {"gjw", "gjw_woken"} /\ wpc' # wpc

\* C28 as stated: get_jobs_and_wait returns a batch that is the first
\* min(maxCount, queue length) jobs in FIFO order and is not empty, and it
\* returns "stop" only when shutdown is observed and the queue is empty.
C28_StopOnlyWhenEmpty ==
    [][GjwDecides =>
         /\ wpc' = "exit" => ~run /\ jobs = <<>>
         /\ wpc' = "copy" =>
               /\ fetch' # <<>>
               /\ fetch' = SubSeq(jobs, 1, Min(maxBatch, Len(jobs)))]_vars

\* C28 amended: get_jobs_and_wait goes (back) to waiting only while the
\* controller is running and the queue is empty; it returns "stop" whenever
\* shutdown is observed, whether or not jobs are still queued, and leaves
\* the queue untouched; otherwise it returns the first
\* min(maxCount, queue length) jobs in FIFO order, a non-empty batch, and
\* removes exactly those from the queue.
C28_FetchOrStop ==
    [][GjwDecides =>
         \/ wpc' = "gjw_window" /\ run /\ jobs = <<>> /\ jobs' = jobs
         \/ wpc' = "exit" /\ ~run /\ jobs' = jobs
         \/ /\ wpc' = "copy" /\ run /\ jobs # <<>>
            /\ fetch' # <<>>
            /\ fetch' = SubSeq(jobs, 1, Min(maxBatch, Len(jobs)))
            /\ jobs' = SubSeq(jobs, Len(fetch') + 1, Len(jobs))]_vars

C28_Witness == wpc = "exit" /\ jobs # <<>> /\ Len(batches) > 0 /\ ~ub

\* one iteration of the worker's copy loop has run: the copies of the job at
\* batch index ibatch are on the stream and its release() has returned
CopyIterationDone == wpc = "copy" /\ (wpc' # "copy" \/ ibatch' # ibatch)

\* C29: for every job of a fetched batch the worker releases the job's
\* slot right after enqueuing its copies: the job has a slot, the slot is
\* in use and becomes available in that step (one release per dequeued
\* job), the forward pass of the batch has not been launched and no promise
\* of the batch has been fulfilled.
C29_ReleaseAfterCopies ==
    [][CopyIterationDone =>
         LET j == fetch[ibatch] IN
         /\ mono[j] # NoSlot
         /\ ~avail[mono[j]]
         /\ avail'[mono[j]]
         /\ numAvail' = numAvail + 1
         /\ Len(batches') = Len(batches)
         /\ \A i \in 1..Len(fetch) : ~Satisfied(fetch[i])]_vars

\* the forward pass, decode and read-back of job j's batch have completed
ReadBackDone(j) == j \in dequeued /\ (j \in Range(fetch) => wpc = "fulfil")

\* C30 as stated: the future of a queued job is fulfilled only after the
\* forward pass, decode, NMS and read-back of its batch have completed.
C30_FulfilledOnlyAfterReadBack ==
    \A j \in Jobs : (Pushed(j) /\ Satisfied(j)) => ReadBackDone(j)

\* an iteration of the worker's last loop has set a promise
WorkerSets == wpc = "fulfil" /\ (ibatch' # ibatch \/ wpc' # "fulfil")

\* C30 amended: the worker fulfils a promise only after the forward pass,
\* decode and read-back of every batch dequeued so far, with the rows read
\* back for the job's batch index, one promise per iteration in batch-index
\* order; only the worker delivers detection results; and the next batch
\* is dequeued only when every promise of the earlier batches is set.
\* (Queued jobs that stop() drains get an empty result with no forward
\* pass.)
C30_WorkerFulfilsAfterReadBack ==
    [][/\ WorkerSets =>
            LET j == fetch[ibatch] IN
            /\ SumSeq(batches) = Cardinality(dequeued)
            /\ setCalls[j] = 0 /\ setCalls'[j] = 1
            /\ val'[j] = outArr[ibatch]
            /\ \A k \in Jobs \ {j} : setCalls'[k] = setCalls[k] /\ val'[k] = val[k]
            /\ \A i \in 1..(ibatch - 1) : Satisfied(fetch[i])
       /\ \A j \in Jobs :
            (val'[j] # val[j] /\ val'[j] # EmptyOut) => (WorkerSets /\ j = fetch[ibatch])
       /\ (fetch = <<>> /\ fetch' # <<>>) => \A j \in dequeued : Satisfied(j)]_vars

C30_Witness ==
    /\ wpc = "fulfil" /\ Len(fetch) = 2 /\ ibatch = 2
    /\ SetByWorker(fetch[1]) /\ ~Satisfied(fetch[2])
    /\ Len(batches) = 2

\* the thread that built job j is blocked in the wait of query()
OwnerWaits(j) ==
    \E p \in Producers, i \in 1..MaxInputs : j = jid(p, i) /\ ppc[p] = "q_wait"

\* every slot of the running pool is held by a job that is neither queued
\* nor with the worker, and whose thread waits for a further slot
AllSlotsHeldByWaiters ==
    /\ run /\ poolAlive /\ prun /\ numAvail = 0
    /\ \A s \in 1..cap :
         /\ Holders(s) # {}
         /\ \A j \in Holders(s) :
              j \notin Range(jobs) /\ j \notin Range(fetch) /\ OwnerWaits(j)

\* C25: a producer blocked waiting for a slot is always released by the
\* worker: threads calling commits concurrently never reach a state where
\* every slot is held by a job not yet enqueued while the holders wait for
\* more slots.
C25_NoHoldAndWait == ~AllSlotsHeldByWaiters

\* ------------------------------------------------------ detection claims
\* the largest class score of a row of predict
TopScore(pitem) ==
    CHOOSE v \in { pitem[6][k] : k \in 1..Len(pitem[6]) } :
        \A k \in 1..Len(pitem[6]) : pitem[6][k] <= v

\* a candidate whose objectness and whose confidence (best class score
\* times objectness) both reach the confidence threshold
Confident(pitem) ==
    /\ pitem[5] >= confidence_threshold
    /\ TopScore(pitem) * pitem[5] >= AsHundredths(confidence_threshold)

\* the rows of the slice written by the decode threads that have run
Stored == 1..NmsCount

\* C21: every returned box has a confidence (best class score times
\* objectness) of at least the confidence threshold: decode discards a
\* candidate whose objectness, or whose product, is below the threshold, and
\* counts and stores only the others.
C21_ConfidentBoxesOnly ==
    /\ parray.count = Cardinality({ t \in decodeRan : Confident(predict[t]) })
    /\ \A i \in Stored :
         /\ parray.rows[i][5] >= AsHundredths(confidence_threshold)
         /\ \E t \in decodeRan :
              /\ Confident(predict[t])
              /\ parray.rows[i][5] = TopScore(predict[t]) * predict[t][5]
    /\ \A k \in 1..Len(image_based_boxes) :
         /\ image_based_boxes[k][5] >= AsHundredths(confidence_threshold)
         /\ \E i \in Stored : image_based_boxes[k] = SubSeq(parray.rows[i], 1, 6)

\* a candidate with objectness 0.9 and best class score 0.4 has been dropped
\* at threshold 0.5, and a box has been returned
C21_Witness ==
    /\ kpc = "done"
    /\ confidence_threshold = 5
    /\ \E t \in decodeRan : predict[t][5] = 9 /\ TopScore(predict[t]) = 4
    /\ parray.count < Len(predict)
    /\ image_based_boxes # <<>>

\* the unit cells a box covers
Cells(box) ==
    { <<x, y>> \in (box[1]..(box[3] - 1)) \X (box[2]..(box[4] - 1)) : TRUE }

\* intersection over union of the two boxes exceeds the NMS threshold
Overlapping(a, b) ==
    Cardinality(Cells(a) \cap Cells(b)) * 10
        > nms_threshold * Cardinality(Cells(a) \cup Cells(b))

NmsDone == kpc = "launched" /\ nmsRan = 1..MaxObjects

\* C22: after NMS every pair of kept boxes of one class has an IoU of at
\* most the NMS threshold; of two overlapping boxes of one class the one
\* with the lower confidence has its keep flag cleared; and a box is
\* suppressed only by an overlapping box of its own class whose confidence
\* is not lower.
C22_KeptBoxesDisjoint ==
    /\ NmsDone =>
         /\ \A i, j \in Stored :
              (/\ i # j
               /\ parray.rows[i][6] = parray.rows[j][6]
               /\ Overlapping(parray.rows[i], parray.rows[j])) =>
                 /\ parray.rows[i][7] = 0 \/ parray.rows[j][7] = 0
                 /\ parray.rows[i][5] > parray.rows[j][5] => parray.rows[j][7] = 0
         /\ \A j \in Stored :
              parray.rows[j][7] # 1 =>
                /\ parray.rows[j][7] = 0
                /\ \E i \in Stored \ {j} :
                     /\ parray.rows[i][6] = parray.rows[j][6]
                     /\ parray.rows[i][5] >= parray.rows[j][5]
                     /\ Overlapping(parray.rows[i], parray.rows[j])
    /\ kpc = "done" =>
         \A k, m \in 1..Len(image_based_boxes) :
           (k # m /\ image_based_boxes[k][6] = image_based_boxes[m][6]) =>
              ~Overlapping(image_based_boxes[k], image_based_boxes[m])

\* confidences 0.9 * 0.9 and 0.9 * 0.8 of one class at IoU 0.6, threshold
\* 0.5: the lower one is suppressed and the higher one alone is returned
C22_Witness ==
    /\ kpc = "done" /\ nms_threshold = 5
    /\ \E i, j \in Stored :
         /\ parray.rows[i][6] = parray.rows[j][6]
         /\ parray.rows[i][5] = 81 /\ parray.rows[j][5] = 72
         /\ Overlapping(parray.rows[i], parray.rows[j])
         /\ parray.rows[i][7] = 1 /\ parray.rows[j][7] = 0
         /\ image_based_boxes = <<SubSeq(parray.rows[i], 1, 6)>>

\* two stored boxes of one class with equal confidence that overlap
Tied(i, j) ==
    /\ i \in Stored /\ j \in Stored /\ i # j
    /\ parray.rows[i][6] = parray.rows[j][6]
    /\ parray.rows[i][5] = parray.rows[j][5]
    /\ Overlapping(parray.rows[i], parray.rows[j])

\* C23 as stated: of two overlapping boxes of one class with equal
\* confidence the one at the lower index keeps its flag and the one at the
\* higher index is suppressed.
C23_LowerIndexWins ==
    NmsDone => \A i, j \in Stored : (Tied(i, j) /\ i < j) => parray.rows[j][7] = 0

\* C23 amended: of two overlapping boxes of one class with equal confidence
\* the one at the lower index is suppressed, and the one at the higher
\* index keeps its flag unless a third box suppresses it: exactly one of
\* two such boxes survives, the one at the higher index.
C23_HigherIndexWins ==
    NmsDone =>
      \A i, j \in Stored : (Tied(i, j) /\ i < j) =>
        /\ parray.rows[i][7] = 0
        /\ parray.rows[j][7] = 0 =>
             \E k \in Stored \ {i, j} :
               /\ parray.rows[k][6] = parray.rows[j][6]
               /\ Overlapping(parray.rows[k], parray.rows[j])
               /\ \/ parray.rows[k][5] > parray.rows[j][5]
                  \/ parray.rows[k][5] = parray.rows[j][5] /\ k > j

C23_Witness ==
    /\ kpc = "done"
    /\ Tied(1, 2)
    /\ parray.rows[1][7] = 0 /\ parray.rows[2][7] = 1
    /\ image_based_boxes = <<SubSeq(parray.rows[2], 1, 6)>>

\* ptr is a buffer of at least n bytes: one the block allocated and has not
\* freed, or one the client handed over
Backed(ptr, n) ==
    \/ ptr < 0
    \/ \E a \in live : a[1] = ptr /\ a[2] >= n

\* C24: a failing host or device allocation in cpu(n) / gpu(n) is fatal:
\* the block never goes on with its recorded capacity raised to n while no
\* valid buffer of n bytes exists.
C24_AllocFailureFatal ==
    ~crashed =>
      /\ gpu_size_ > 0 => Backed(gpu_, gpu_size_)
      /\ cpu_size_ > 0 => Backed(cpu_, cpu_size_)

\* the step in which the commits call of thread p gets past its first
\* statements (batch_size, the vectors, nepoch)
CommitsEntered(p) == ppc[p] = "begin" /\ ppc'[p] # "begin"

\* C31: commits called with an empty list, or when the pool does not exist
\* (the dispatcher has been stopped), returns without fault: for an empty
\* list it returns an empty list of futures and enqueues nothing, otherwise
\* it goes on to give every item a future.
C31_CommitsWithoutFault ==
    [][\A p \in Producers :
         (CommitsEntered(p) /\ (NIn(p) = 0 \/ ~alloc)) =>
           /\ ub' = ub
           /\ NIn(p) = 0 =>
                /\ ppc'[p] = "done"
                /\ results'[p] = <<>>
                /\ jobs' = jobs]_vars

\* C37: a MixMemory block never frees a buffer it does not own: no buffer
\* handed to reference_data is ever passed to cudaFree / cudaFreeHost,
\* whatever calls and the destruction follow; a side becomes non-owning
\* only by adopting a supplied buffer, and becomes owning again only by a
\* reference_data call that supplies nothing for it.
C37_ExternalNeverFreed ==
    /\ [](\A b \in freed : b > 0)
    /\ [][/\ (owner_gpu_ /\ ~owner_gpu_') => gpu_' < 0
          /\ (owner_cpu_ /\ ~owner_cpu_') => cpu_' < 0
          /\ (~owner_gpu_ /\ owner_gpu_') => gpu_' = NullPtr
          /\ (~owner_cpu_ /\ owner_cpu_') => cpu_' = NullPtr]_vars

\* a block that adopted an external device buffer only, allocated a host
\* buffer itself and was destroyed: its own buffer was freed, the external
\* one was not
C37_Witness ==
    /\ destroyed
    /\ ~owner_gpu_ /\ owner_cpu_
    /\ freed # {}
    /\ live = {}

\* C38: every buffer the block allocates itself is freed by the block: once
\* the block has been destroyed no allocation made by cpu(n) / gpu(n)
\* remains live.
C38_NoLeakAfterDestroy == destroyed => live = {}

\* the rows of the slice no decode thread has written
Untouched == { i \in 1..MaxObjects : parray.rows[i] = StaleRow }

\* the rows the worker may emit: keep flag 1 among the first min(count, cap)
Emitted == { i \in 1..Min(parray.count, MaxObjects) : parray.rows[i][7] = 1 }

\* C32: the counter starts at zero for the image and counts every claiming
\* decode thread, so it may exceed the cap; a thread writes a box only at
\* the index it claimed, only if that index is below the cap, and no two
\* threads write the same row; the rows at and beyond min(count, cap) are
\* never written; NMS clears flags only below min(count, cap); the worker
\* returns exactly the rows with keep flag 1 among the first min(count, cap).
C32_CappedSlice ==
    /\ [](/\ DOMAIN parray.rows = 1..MaxObjects
          /\ decodeRan = {} => parray.count = 0
          /\ parray.count <= Cardinality(decodeRan)
          /\ Untouched = (Min(parray.count, MaxObjects) + 1)..MaxObjects
          /\ kpc = "done" =>
               /\ Len(image_based_boxes) = Cardinality(Emitted)
               /\ \A k \in 1..Len(image_based_boxes) :
                    \E i \in Emitted : image_based_boxes[k] = SubSeq(parray.rows[i], 1, 6))
    /\ [][/\ parray'.count \in {parray.count, parray.count + 1}
          /\ decodeRan' # decodeRan =>
               \A i \in 1..MaxObjects :
                 parray'.rows[i] # parray.rows[i] =>
                   /\ i = parray.count + 1
                   /\ parray'.count = i
                   /\ parray.rows[i] = StaleRow
          /\ nmsRan' # nmsRan =>
               \A i \in 1..MaxObjects :
                 parray'.rows[i] # parray.rows[i] =>
                   i <= Min(parray.count, MaxObjects)]_vars

\* more candidates than the cap have claimed an index, and the boxes of the
\* slice have been read back
C32_Witness ==
    /\ kpc = "done"
    /\ parray.count > MaxObjects
    /\ Untouched = {}
    /\ image_based_boxes # <<>>

\* C39: a release of a slot that is already available changes nothing (the
\* counter is not incremented and no waiter is woken), so the counter never
\* exceeds the capacity and always equals the number of available slots; a
\* release of a slot in use makes that slot available, increments the
\* counter by exactly one and wakes one of the waiting threads, if any.
C39_ReleaseIdempotent ==
    /\ [](poolAlive =>
            /\ numAvail <= cap
            /\ numAvail = Cardinality({ s \in 1..cap : avail[s] }))
    /\ [][releaseLog' # releaseLog =>
            LET s == releaseLog'[Len(releaseLog')][1]
                outcome == releaseLog'[Len(releaseLog')][2]
            IN IF avail[s]
                 THEN /\ outcome = "noop"
                      /\ numAvail' = numAvail /\ avail' = avail /\ ppc' = ppc
                 ELSE /\ outcome = "freed"
                      /\ numAvail' = numAvail + 1
                      /\ avail' = [avail EXCEPT ![s] = TRUE]
                      /\ IF PoolWaiters = {}
                           THEN ppc' = ppc
                           ELSE \E w \in PoolWaiters :
                                  ppc' = [ppc EXCEPT ![w] = "q_woken"]]_vars
    /\ [][(poolAlive /\ numAvail' > numAvail) =>
            /\ numAvail' = numAvail + 1
            /\ \E s \in 1..cap : ~avail[s] /\ avail' = [avail EXCEPT ![s] = TRUE]
            /\ PoolWaiters # {} =>
                 \E w \in PoolWaiters : ppc'[w] = "q_woken"]_vars

\* the worker has released the slots of the jobs it fetched, a holder has
\* then released one of them once more, and the counter stands at the
\* capacity
C39_Witness ==
    /\ poolAlive
    /\ dequeued # {}
    /\ \E s \in 1..cap : releaseLog = << <<s, "noop">> >>
    /\ numAvail = cap

\* C33: a resize (or resize_single_dim) whose new byte size, the number of
\* elements of the new shape times the element size, exceeds the tensor's
\* byte size sets the head to Init; a resize to an equal or a smaller byte
\* size leaves the head as it was; no resize touches the block's buffers.
C33_ResizeInvalidatesOnGrowth ==
    [][tcall' \in {"resize", "resize_single_dim"} =>
         /\ memVars' = memVars
         /\ ~crashed' =>
              /\ bytes_' = numel(shape_') * element_size
              /\ bytes_' > bytes_ => head_' = "Init"
              /\ bytes_' <= bytes_ => head_' = head_]_vars

\* a tensor moved to the device has been resized to a larger size: its head
\* is Init while the block still holds the smaller device buffer
C33_Witness ==
    /\ tcall = "resize"
    /\ head_ = "Init"
    /\ gpu_ # NullPtr
    /\ 0 < gpu_size_ /\ gpu_size_ < bytes_

\* C34: a copy_from_gpu call turned away by one of its two range checks is
\* a no-op: no copy is issued, and the head, the shape, the byte size and
\* the block's buffers are what they were before the call.
C34_OutOfRangeCopyIsNoOp ==
    [][tcall' = "copy_oob" =>
         /\ issued' = <<>>
         /\ head_' = head_
         /\ shape_' = shape_ /\ bytes_' = bytes_
         /\ memVars' = memVars]_vars

\* C35: a copy issued by to_gpu(true) or to_cpu(true) reads no more bytes
\* than the buffer of the side it reads from holds.
C35_CopyWithinSource ==
    (issued # <<>> /\ issued[1] \in {"HostToDevice", "DeviceToHost"}) =>
        issued[2] <= issued[3]

\* the size fields of the block cover the tensor on the side the head names
HeadCoveredBySizeFields ==
    /\ head_ = "Device" => gpu_size_ >= bytes_
    /\ head_ = "Host" => cpu_size_ >= bytes_

\* C36: while the head is Device the block holds a device buffer of at
\* least bytes_ bytes, and while it is Host a host buffer of at least
\* bytes_ bytes.
C36_HeadSideAllocated ==
    ~crashed =>
      /\ (head_ = "Device" /\ bytes_ > 0) => Backed(gpu_, bytes_)
      /\ (head_ = "Host" /\ bytes_ > 0) => Backed(cpu_, bytes_)

====
